---- MODULE Spec2Model ----
(***************************************************************************)
(* A model of the MXF reader and linker of aaf2 (src/aaf2/mxf.py).         *)
(*                                                                         *)
(* MXFFile.__init__ walks the KLV units of a file once, building the local *)
(* tag primer, the object table and the preface; MXFFile.link then walks   *)
(* the package -> track -> component -> descriptor graph and creates mobs  *)
(* in a destination AAF model.                                             *)
(*                                                                         *)
(* A KLV unit is kept as a record: its 16-byte key, its decoded length and *)
(* its body.  The body of a local set is the sequence of its               *)
(* (tag, size, payload) entries; payloads of scalar and reference tags are *)
(* kept as the value the reader decodes them to, text payloads are kept as *)
(* bytes and decoded by decode_utf16be.  Python's None is the empty        *)
(* sequence for an optional object or label, and 0 for an instance id.     *)
(***************************************************************************)
EXTENDS Integers, Sequences, FiniteSets, TLC

\* ------------------------------------------------------------------ bounds
\* number of MXFFile.link calls made on one parsed file
MaxLinkCalls == 2

\* number of length bytes of the BER long forms ber_length is given
MaxLengthBytes == 2

\* number of KLV units of the files iter_kl is run on
MaxKLUnits == 2

\* most bytes the consumer of iter_kl reads between two yields
MaxConsume == 3

\* number of entries of the bodies iter_tags is run on
MaxTagEntries == 3

\* largest element count of the fixed arrays; the sequences encoded are up
\* to one item longer
MaxCapacity == 2

\* number of 16-bit units of the buffers decode_utf16be is given; the
\* buffers are up to one byte longer
MaxUnits == 3

\* ------------------------------------------------------------- dictionaries
\* a Python dict: a function whose domain is the set of its keys
EmptyDict == [k \in {} |-> 0]

Put(d, k, v) == [x \in (DOMAIN d) \cup {k} |-> IF x = k THEN v ELSE d[x]]

Has(d, k) == k \in DOMAIN d

\* ------------------------------------------------------------------- keys
\* 060e2b34-0253-0101-0d01-0101 0101 cc 00 : the local sets of read_table
SetKey(c) == <<6, 14, 43, 52, 2, 83, 1, 1, 13, 1, 1, 1, 1, 1, c, 0>>

\* 060e2b34-0205-0101-0d01-020101050100
PrimerKey == <<6, 14, 43, 52, 2, 5, 1, 1, 13, 1, 2, 1, 1, 5, 1, 0>>

\* 060e2b34-0205-0101-0d01-020101020400
HeaderKey == <<6, 14, 43, 52, 2, 5, 1, 1, 13, 1, 2, 1, 1, 2, 4, 0>>

\* a KLV fill item, 060e2b34-0101-0102-0301-021001000000: byte 5 is not 0x53
FillKey == <<6, 14, 43, 52, 1, 1, 1, 2, 3, 1, 2, 16, 1, 0, 0, 0>>

\* the class byte (byte 14 of the key) of each entry of the dispatch table
ClassOfByte ==
    (47 :> "MXFPreface")          @@ (24 :> "MXFContentStorage") @@
    (54 :> "MXFMaterialPackage")  @@ (55 :> "MXFSourcePackage")  @@
    (59 :> "MXFTrack")            @@ (15 :> "MXFSequence")       @@
    (17 :> "MXFSourceClip")       @@ (20 :> "MXFTimecode")       @@
    (12 :> "MXFPulldown")         @@ (9  :> "MXFFiller")         @@
    (13 :> "MXFScopeReference")   @@ (68 :> "MXFMultipleDescriptor") @@
    (40 :> "MXFCDCIDescriptor")   @@ (41 :> "MXFRGBADescriptor") @@
    (66 :> "MXFSoundDescriptor")  @@ (72 :> "MXFPCMDescriptor")  @@
    (74 :> "MXFImportDescriptor") @@ (46 :> "MXFTapeDescriptor") @@
    (50 :> "MXFNetworkLocator")   @@ (5  :> "MXFEssenceGroup")   @@
    (35 :> "MXFEssenceData")

\* read_table.get(key, None); "None" when the key is not in the table
read_table(key) ==
    IF key[15] \in DOMAIN ClassOfByte /\ key = SetKey(key[15])
    THEN ClassOfByte[key[15]]
    ELSE "None"

\* ------------------------------------------------------------ class families
PackageClasses == {"MXFMaterialPackage", "MXFSourcePackage"}

ComponentClasses == {"MXFSequence", "MXFSourceClip", "MXFTimecode", "MXFPulldown",
                     "MXFFiller", "MXFScopeReference", "MXFEssenceGroup"}

DescriptorClasses == {"MXFMultipleDescriptor", "MXFCDCIDescriptor", "MXFRGBADescriptor",
                      "MXFSoundDescriptor", "MXFPCMDescriptor", "MXFImportDescriptor",
                      "MXFTapeDescriptor"}

\* ------------------------------------------------------- read_tag dispatch
PrefaceTags == (\H3b09 :> "OperationalPattern") @@ (\H3b03 :> "ContentStorage")

ContentStorageTags == (\H1902 :> "EssenceContainerData") @@ (\H1901 :> "Packages")

PackageTags ==
    (\H4403 :> "Slots") @@ (\H4401 :> "MobID") @@ (\H4402 :> "Name") @@
    (\H4701 :> "Descriptor") @@ (\H4404 :> "LastModified") @@
    (\H4405 :> "CreationTime") @@ (\H4408 :> "UsageCode")

TrackTags ==
    (\H4b02 :> "Origin") @@ (\H4b01 :> "EditRate") @@ (\H4803 :> "Segment") @@
    (\H4804 :> "PhysicalTrackNumber") @@ (\H4801 :> "SlotID") @@ (\H4802 :> "SlotName")

ComponentTags ==
    (\H1001 :> "Components") @@ (\H1201 :> "StartTime") @@
    (\H1102 :> "SourceMobSlotID") @@ (\H1101 :> "SourceID") @@
    (\H0202 :> "Length") @@ (\H0201 :> "DataDef") @@ (\H1503 :> "DropFrame") @@
    (\H1502 :> "FPS") @@ (\H1501 :> "Start") @@ (\H0501 :> "Choices") @@
    (\H0502 :> "StillFrame") @@ (\H0d01 :> "InputSegment") @@
    (\H0d02 :> "PulldownKind") @@ (\H0d03 :> "PulldownDirection") @@
    (\H0d04 :> "PhaseFrame") @@ (\H0e01 :> "RelativeScope") @@
    (\H0e02 :> "RelativeSlot")

DescriptorTags ==
    (\H3f01 :> "SubDescriptors") @@ (\H3004 :> "ContainerFormat") @@
    (\H3005 :> "CodecDefinition") @@ (\H3006 :> "LinkedTrackID") @@
    (\H3203 :> "StoredWidth") @@ (\H3202 :> "StoredHeight") @@
    (\H320d :> "VideoLineMap") @@ (\H3211 :> "ImageAlignmentOffset") @@
    (\H3002 :> "Length") @@ (\H3001 :> "SampleRate") @@
    (\H3d03 :> "AudioSamplingRate") @@ (\H3d0a :> "BlockAlign") @@
    (\H3d01 :> "QuantizationBits") @@ (\H3d07 :> "Channels") @@
    (\H3d09 :> "AverageBPS") @@ (\H3d02 :> "Locked") @@
    (\H3301 :> "ComponentWidth") @@ (\H320c :> "FrameLayout") @@
    (\H320e :> "ImageAspectRatio") @@ (\H3d06 :> "SoundCompression") @@
    (\H3201 :> "Compression") @@ (\H3302 :> "HorizontalSubsampling") @@
    (\H3308 :> "VerticalSubsampling") @@ (\H2f01 :> "Locator") @@
    (\H3401 :> "PixelLayout")

LocatorTags == (\H4001 :> "URLString")

EssenceDataTags == (\H2701 :> "MobID")

\* the tag -> field table of the read_tag override of a class
ClassTags(cls) ==
    CASE cls = "MXFPreface"          -> PrefaceTags
      [] cls = "MXFContentStorage"   -> ContentStorageTags
      [] cls \in PackageClasses      -> PackageTags
      [] cls = "MXFTrack"            -> TrackTags
      [] cls \in ComponentClasses    -> ComponentTags
      [] cls \in DescriptorClasses   -> DescriptorTags
      [] cls = "MXFNetworkLocator"   -> LocatorTags
      [] cls = "MXFEssenceData"      -> EssenceDataTags
      [] OTHER                       -> EmptyDict

\* ------------------------------------------------------------ text decoding
\* the scan of decode_utf16be; i is the 0-based loop index, the result is
\* `size`, which keeps its initial 0 when the loop ends without a break
RECURSIVE utf16_scan(_, _)
utf16_scan(data, i) ==
    IF i >= Len(data) THEN 0
    ELSE IF i + 1 >= Len(data) THEN i
    ELSE IF data[i + 1] = 0 /\ data[i + 2] = 0 THEN i
    ELSE utf16_scan(data, i + 2)

\* data[:size].decode('utf-16-be') as the sequence of 16-bit code units
decode_utf16be(data) ==
    LET size == utf16_scan(data, 0)
    IN  [k \in 1..(size \div 2) |-> data[2 * k - 1] * 256 + data[2 * k]]

TextFields == {"Name", "SlotName", "URLString"}

FlagFields == {"DropFrame", "Locked"}

\* the value a read_tag branch stores for a payload
decode_field(field, data) ==
    IF field \in TextFields THEN decode_utf16be(data)
    ELSE IF field \in FlagFields THEN (data = 1)
    ELSE data

\* ---------------------------------------------------------------- iter_tags
\* the (tag, payload) pairs iter_tags yields from the entries of a body of
\* declared length `length`: zero-size entries are not yielded, every entry
\* takes 4 + size off the remaining length.  The bodies read here are well
\* framed (their length is the sum of 4 + size over their entries), so the
\* entries run out exactly when the length does.
RECURSIVE iter_tags(_, _)
iter_tags(entries, length) ==
    IF length <= 0 \/ entries = <<>> THEN <<>>
    ELSE LET e == Head(entries)
             rest == iter_tags(Tail(entries), length - (4 + e.size))
         IN  IF e.size # 0 THEN <<[tag |-> e.tag, data |-> e.data]>> \o rest
             ELSE rest

\* ------------------------------------------------------------------ primer
\* the vendor properties read_properties looks up through the primer
\* a0240060-94eb-75cb-ce2a-ca5051ab11d3, a0240060-94eb-75cb-ce2a-ca4d51ab11d3,
\* a0220060-94eb-75cb-96c4-69924f6211d3
UidField ==
    ("a0240060-94eb-75cb-ce2a-ca5051ab11d3" :> "FrameSampleSize") @@
    ("a0240060-94eb-75cb-ce2a-ca4d51ab11d3" :> "ResolutionID") @@
    ("a0220060-94eb-75cb-96c4-69924f6211d3" :> "AppCode")

\* a local tag mapping: none = TRUE is Python's None, else map is the dict
NoTags == [none |-> TRUE, map |-> EmptyDict]

Tags(m) == [none |-> FALSE, map |-> m]

RECURSIVE primer_items(_, _)
primer_items(items, tags) ==
    IF items = <<>> THEN tags
    ELSE primer_items(Tail(items), Put(tags, Head(items)[1], Head(items)[2]))

\* MXFFile.read_primer: a bare `return` (None) on a stride other than 18 or
\* on more than 65536 entries, else the dict of the entries
read_primer(u) ==
    IF u.item_len # 18 THEN NoTags
    ELSE IF u.item_num > 65536 THEN NoTags
    ELSE Tags(primer_items(u.items, EmptyDict))

\* --------------------------------------------------------- read_properties
\* an MXFObject under construction; err is set when an exception escapes
NewObject(cls) == [cls |-> cls, instance_id |-> 0, data |-> EmptyDict, err |-> FALSE]

\* read_one as it would be if the base read_tag matched the wrong tag
\* (0x3c09) for the instance id
read_one_wrong_id_tag(obj, t, local_tags) ==
    LET tbl == ClassTags(obj.cls)
        o1  == IF t.tag = \H3c09 THEN [obj EXCEPT !.instance_id = t.data] ELSE obj
        o2  == IF t.tag \in DOMAIN tbl
               THEN [o1 EXCEPT !.data = Put(@, tbl[t.tag], decode_field(tbl[t.tag], t.data))]
               ELSE o1
    IN  IF local_tags.none THEN [o2 EXCEPT !.err = TRUE]
        ELSE IF t.tag \in DOMAIN local_tags.map /\ local_tags.map[t.tag] \in DOMAIN UidField
             THEN [o2 EXCEPT !.data = Put(@, UidField[local_tags.map[t.tag]], t.data)]
             ELSE o2

\* one iteration of the loop of read_properties: read_tag (the base class
\* branch for 0x3c0a, then the class's own table), then the primer lookup
read_one(obj, t, local_tags) ==
    LET tbl == ClassTags(obj.cls)
        o1  == IF t.tag = \H3c0a THEN [obj EXCEPT !.instance_id = t.data] ELSE obj
        o2  == IF t.tag \in DOMAIN tbl
               THEN [o1 EXCEPT !.data = Put(@, tbl[t.tag], decode_field(tbl[t.tag], t.data))]
               ELSE o1
    IN  IF local_tags.none THEN [o2 EXCEPT !.err = TRUE]
        ELSE IF t.tag \in DOMAIN local_tags.map /\ local_tags.map[t.tag] \in DOMAIN UidField
             THEN [o2 EXCEPT !.data = Put(@, UidField[local_tags.map[t.tag]], t.data)]
             ELSE o2

RECURSIVE read_loop(_, _, _)
read_loop(obj, yielded, local_tags) ==
    IF yielded = <<>> \/ obj.err THEN obj
    ELSE read_loop(read_one(obj, Head(yielded), local_tags), Tail(yielded), local_tags)

\* read_properties as it would be if the local tag 0xffe0 were taken for
\* FrameSampleSize by its value, without the primer
read_properties_static_tag(obj, u, local_tags) ==
    LET o    == read_loop(obj, iter_tags(u.tags, u.length), local_tags)
        hits == SelectSeq(iter_tags(u.tags, u.length), LAMBDA t : t.tag = \Hffe0)
    IN  IF hits # <<>> /\ ~o.err
        THEN [o EXCEPT !.data = Put(@, "FrameSampleSize", hits[Len(hits)].data)]
        ELSE o

read_properties(obj, u, local_tags) == read_loop(obj, iter_tags(u.tags, u.length), local_tags)

\* read_object as it would be if a key missing from the dispatch table were
\* decoded as a plain MXFObject instead of being skipped
read_object_generic(u, local_tags) ==
    IF u.key[6] # 83 THEN <<>>
    ELSE IF read_table(u.key) # "None"
         THEN <<read_properties(NewObject(read_table(u.key)), u, local_tags)>>
         ELSE <<read_properties(NewObject("MXFObject"), u, local_tags)>>

\* MXFFile.read_object: <<>> is None (no object), else <<obj>>
read_object(u, local_tags) ==
    IF u.key[6] # 83 THEN <<>>
    ELSE IF read_table(u.key) # "None"
         THEN <<read_properties(NewObject(read_table(u.key)), u, local_tags)>>
         ELSE <<>>

\* ------------------------------------------------------ operational pattern
\* a 16-byte operational pattern label 060e2b34-0401-01vv-0d01-0201 cc pp 0000
OPLabel(v, c, p) == <<6, 14, 43, 52, 4, 1, 1, v, 13, 1, 2, 1, c, p, 0, 0>>

OPPrefixes == { <<6, 14, 43, 52, 4, 1, 1, v, 13, 1, 2, 1>> : v \in {1, 2, 3} }

OPName ==
    (1 :> ((1 :> "OP1a") @@ (2 :> "OP1b") @@ (3 :> "OP1c"))) @@
    (2 :> ((1 :> "OP2a") @@ (2 :> "OP2b") @@ (3 :> "OP2c"))) @@
    (3 :> ((1 :> "OP3a") @@ (2 :> "OP3b") @@ (3 :> "OP3c")))

\* classify_op as it would be if every complexity byte of 0x10..0x7f, not
\* 0x10 alone, were taken for OPAtom
classify_op_atom_range(op) ==
    IF SubSeq(op, 1, 12) \notin OPPrefixes THEN "None"
    ELSE LET complexity == op[13]
         IN  IF complexity >= 1 /\ complexity <= 3
             THEN (IF op[14] \in {1, 2, 3} THEN OPName[complexity][op[14]] ELSE "None")
             ELSE IF complexity >= 16 /\ complexity <= 127 THEN "OPAtom"
                  ELSE "None"

\* the classification of a label by MXFFile.operation_pattern; "None" when
\* the property falls off its end or returns early
classify_op(op) ==
    IF SubSeq(op, 1, 12) \notin OPPrefixes THEN "None"
    ELSE LET complexity == op[13]
         IN  IF complexity >= 1 /\ complexity <= 3
             THEN (IF op[14] \in {1, 2, 3} THEN OPName[complexity][op[14]] ELSE "None")
             ELSE IF complexity >= 16 /\ complexity <= 127
                  THEN (IF complexity = 16 THEN "OPAtom" ELSE "None")
                  ELSE "None"

\* MXFFile.operation_pattern: the header partition's label when one was
\* read, else the preface's; "AttributeError" when there is no preface to ask
operation_pattern(hop, pre) ==
    IF hop # <<>> THEN classify_op(hop)
    ELSE IF pre = <<>> THEN "AttributeError"
    ELSE IF Has(pre[1].data, "OperationalPattern")
         THEN classify_op(pre[1].data["OperationalPattern"])
         ELSE "None"

\* -------------------------------------------------------------- resolution
\* MXFFile.resolve: <<>> is None, <<o>> the object registered under ref
resolve(objs, ref) == IF ref \in DOMAIN objs THEN <<objs[ref]>> ELSE <<>>

\* MXFObject.resolve_ref: <<>> stands for the raised exception
resolve_ref(objs, o, key) ==
    IF Has(o.data, key) THEN resolve(objs, o.data[key]) ELSE <<>>

\* MXFObject.iter_strong_refs: the resolved entries, <<>> for a miss
iter_strong_refs(objs, o, key) ==
    IF Has(o.data, key)
    THEN [i \in 1..Len(o.data[key]) |-> resolve(objs, o.data[key][i])]
    ELSE <<>>

\* ------------------------------------------------- destination (AAF) objects
\* an object made by f.create: its class and the properties assigned so far
Create(cls) == [cls |-> cls, props |-> EmptyDict]

SetProp(o, k, v) == [o EXCEPT !.props = Put(@, k, v)]

\* the value Python's None takes in a property
NoneValue == -1

NoObj == [cls |-> "None", props |-> EmptyDict]

\* the outcome of a link method: the object returned, or an exception raised
Ok(o) == [err |-> FALSE, obj |-> o]

Raise == [err |-> TRUE, obj |-> NoObj]

\* d[key].value = self.data[key] for each key in turn; KeyError when absent
RECURSIVE copy_required(_, _, _)
copy_required(o, data, keys) ==
    IF keys = <<>> THEN Ok(o)
    ELSE IF ~Has(data, Head(keys)) THEN Raise
    ELSE copy_required(SetProp(o, Head(keys), data[Head(keys)]), data, Tail(keys))

\* if key in self.data: d[key].value = self.data[key]
RECURSIVE copy_optional(_, _, _)
copy_optional(o, data, keys) ==
    IF keys = <<>> THEN o
    ELSE copy_optional(IF Has(data, Head(keys)) THEN SetProp(o, Head(keys), data[Head(keys)]) ELSE o,
                       data, Tail(keys))

\* s[key].value = self.data.get(key, None)
RECURSIVE copy_get(_, _, _)
copy_get(o, data, keys) ==
    IF keys = <<>> THEN o
    ELSE copy_get(SetProp(o, Head(keys), IF Has(data, Head(keys)) THEN data[Head(keys)] ELSE NoneValue),
                  data, Tail(keys))

\* media_kind and length, the two assignments most component links start with
media_kind_length(o, data) ==
    IF ~Has(data, "DataDef") \/ ~Has(data, "Length") THEN Raise
    ELSE Ok(SetProp(SetProp(o, "media_kind", data["DataDef"]), "length", data["Length"]))

\* ------------------------------------------------------------ link methods
\* item.link(f) on a resolved entry ro; the files modelled never reference a
\* package from a Segment, Components, Choices, Descriptor or Locator field
RECURSIVE object_link(_, _)

\* item.link(f) for each entry in turn, stopping at the first exception
RECURSIVE link_all(_, _)
link_all(objs, ros) ==
    IF ros = <<>> THEN [err |-> FALSE, objs |-> <<>>]
    ELSE LET r == object_link(objs, Head(ros))
         IN  IF r.err THEN [err |-> TRUE, objs |-> <<>>]
             ELSE LET rest == link_all(objs, Tail(ros))
                  IN  IF rest.err THEN [err |-> TRUE, objs |-> <<>>]
                      ELSE [err |-> FALSE, objs |-> <<r.obj>> \o rest.objs]

MXFTrack_link(objs, o) ==
    IF ~Has(o.data, "SlotID") \/ ~Has(o.data, "EditRate") THEN Raise
    ELSE LET t0 == SetProp(SetProp(Create("TimelineMobSlot"), "SlotID", o.data["SlotID"]),
                           "EditRate", o.data["EditRate"])
             t1 == copy_optional(t0, o.data, <<"SlotName", "PhysicalTrackNumber">>)
             segment == resolve_ref(objs, o, "Segment")
         IN  IF segment = <<>> THEN Raise
             ELSE LET r == object_link(objs, segment)
                  IN  IF r.err THEN Raise ELSE Ok(SetProp(t1, "segment", r.obj))

MXFSequence_link(objs, o) ==
    LET s == media_kind_length(Create("Sequence"), o.data)
    IN  IF s.err THEN Raise
        ELSE LET items == link_all(objs, iter_strong_refs(objs, o, "Components"))
             IN  IF items.err THEN Raise ELSE Ok(SetProp(s.obj, "Components", items.objs))

MXFSourceClip_link(objs, o) ==
    IF ~Has(o.data, "DataDef") THEN Raise
    ELSE Ok(copy_get(SetProp(Create("SourceClip"), "media_kind", o.data["DataDef"]), o.data,
                     <<"SourceID", "SourceMobSlotID", "StartTime", "Length">>))

MXFTimecode_link(objs, o) ==
    IF ~Has(o.data, "FPS") \/ ~Has(o.data, "DropFrame") THEN Raise
    ELSE media_kind_length(SetProp(SetProp(Create("Timecode"), "fps", o.data["FPS"]),
                                   "drop", o.data["DropFrame"]), o.data)

MXFPulldown_link(objs, o) ==
    LET p == media_kind_length(Create("Pulldown"), o.data)
    IN  IF p.err THEN Raise
        ELSE LET input == resolve_ref(objs, o, "InputSegment")
             IN  IF input = <<>> THEN Raise
                 ELSE LET r == object_link(objs, input)
                      IN  IF r.err THEN Raise
                          ELSE copy_required(SetProp(p.obj, "InputSegment", r.obj), o.data,
                                             <<"PhaseFrame", "PulldownDirection", "PulldownKind">>)

MXFFiller_link(objs, o) == media_kind_length(Create("Filler"), o.data)

MXFScopeReference_link(objs, o) ==
    LET c == media_kind_length(Create("ScopeReference"), o.data)
    IN  IF c.err THEN Raise
        ELSE copy_required(c.obj, o.data, <<"RelativeSlot", "RelativeScope">>)

MXFEssenceGroup_link(objs, o) ==
    LET e == media_kind_length(Create("EssenceGroup"), o.data)
    IN  IF e.err THEN Raise
        ELSE LET items == link_all(objs, iter_strong_refs(objs, o, "Choices"))
             IN  IF items.err THEN Raise ELSE Ok(SetProp(e.obj, "Choices", items.objs))

\* f.dictionary.lookup_containerdef("AAFKLV")
ContainerDefAAFKLV == "AAFKLV"

MXFCDCIDescriptor_link(objs, o) ==
    LET d == copy_required(Create("CDCIDescriptor"), o.data,
                           <<"ComponentWidth", "HorizontalSubsampling", "ImageAspectRatio",
                             "StoredWidth", "VideoLineMap", "StoredHeight", "SampleRate",
                             "FrameLayout">>)
    IN  IF d.err THEN Raise
        ELSE LET d1 == SetProp(d.obj, "Length", IF Has(o.data, "Length") THEN o.data["Length"] ELSE 0)
                 d2 == copy_optional(d1, o.data, <<"FrameSampleSize", "ResolutionID",
                                                   "Compression", "VerticalSubsampling">>)
                 items == link_all(objs, iter_strong_refs(objs, o, "Locator"))
             IN  IF items.err THEN Raise
                 ELSE Ok(SetProp(IF items.objs = <<>> THEN d2 ELSE SetProp(d2, "Locator", items.objs),
                                 "ContainerFormat", ContainerDefAAFKLV))

MXFRGBADescriptor_link(objs, o) ==
    LET d == copy_required(Create("RGBADescriptor"), o.data,
                           <<"ImageAspectRatio", "StoredWidth", "FrameLayout", "PixelLayout",
                             "VideoLineMap", "StoredHeight", "SampleRate", "Length">>)
    IN  IF d.err THEN Raise
        ELSE Ok(SetProp(copy_optional(d.obj, o.data, <<"FrameSampleSize">>),
                        "ContainerFormat", ContainerDefAAFKLV))

MXFPCMDescriptor_link(objs, o) ==
    copy_required(Create("PCMDescriptor"), o.data,
                  <<"BlockAlign", "AverageBPS", "Channels", "QuantizationBits",
                    "AudioSamplingRate", "SampleRate", "Length">>)

MXFImportDescriptor_link(objs, o) == Ok(Create("ImportDescriptor"))

MXFTapeDescriptor_link(objs, o) == Ok(Create("TapeDescriptor"))

MXFNetworkLocator_link(objs, o) == copy_required(Create("NetworkLocator"), o.data, <<"URLString">>)

\* None and the classes that define no link method raise AttributeError
object_link(objs, ro) ==
    IF ro = <<>> THEN Raise
    ELSE LET o == ro[1]
         IN  CASE o.cls = "MXFTrack"              -> MXFTrack_link(objs, o)
               [] o.cls = "MXFSequence"           -> MXFSequence_link(objs, o)
               [] o.cls = "MXFSourceClip"         -> MXFSourceClip_link(objs, o)
               [] o.cls = "MXFTimecode"           -> MXFTimecode_link(objs, o)
               [] o.cls = "MXFPulldown"           -> MXFPulldown_link(objs, o)
               [] o.cls = "MXFFiller"             -> MXFFiller_link(objs, o)
               [] o.cls = "MXFScopeReference"     -> MXFScopeReference_link(objs, o)
               [] o.cls = "MXFEssenceGroup"       -> MXFEssenceGroup_link(objs, o)
               [] o.cls = "MXFCDCIDescriptor"     -> MXFCDCIDescriptor_link(objs, o)
               [] o.cls = "MXFRGBADescriptor"     -> MXFRGBADescriptor_link(objs, o)
               [] o.cls = "MXFPCMDescriptor"      -> MXFPCMDescriptor_link(objs, o)
               [] o.cls = "MXFImportDescriptor"   -> MXFImportDescriptor_link(objs, o)
               [] o.cls = "MXFTapeDescriptor"     -> MXFTapeDescriptor_link(objs, o)
               [] o.cls = "MXFNetworkLocator"     -> MXFNetworkLocator_link(objs, o)
               [] OTHER                           -> Raise

\* MXFPackage.id
package_id(pkg) == IF Has(pkg.data, "MobID") THEN pkg.data["MobID"] ELSE NoneValue

\* the track loop of MXFPackage.link: mob.slots grows by one timeline per
\* track linked; an exception leaves the mob with the slots appended so far
RECURSIVE link_slots(_, _, _)
link_slots(objs, mob, tracks) ==
    IF tracks = <<>> THEN [err |-> FALSE, mob |-> mob]
    ELSE LET timeline == object_link(objs, Head(tracks))
         IN  IF timeline.err THEN [err |-> TRUE, mob |-> mob]
             ELSE link_slots(objs, SetProp(mob, "slots", Append(mob.props["slots"], timeline.obj)),
                             Tail(tracks))

\* MXFPackage.link.  The mob is appended to f.content.mobs right after its id
\* is set and is filled in afterwards, so the result carries the mob as it
\* stands in the destination when the method returns (err = FALSE) or when
\* an exception leaves it (err = TRUE).
MXFPackage_link(objs, pkg) ==
    LET mob0 == SetProp(SetProp(Create(IF pkg.cls = "MXFMaterialPackage"
                                       THEN "MasterMob" ELSE "SourceMob"),
                                "slots", <<>>), "MobID", package_id(pkg))
        mob1 == IF Has(pkg.data, "Name") /\ pkg.data["Name"] # <<>>
                THEN SetProp(mob0, "Name", pkg.data["Name"]) ELSE mob0
        s    == link_slots(objs, mob1, iter_strong_refs(objs, pkg, "Slots"))
        mob2 == copy_optional(s.mob, pkg.data,
                              <<"LastModified", "CreationTime", "UsageCode", "AppCode">>)
    IN  IF s.err THEN [err |-> TRUE, mob |-> s.mob]
        ELSE IF ~Has(pkg.data, "Descriptor") THEN [err |-> FALSE, mob |-> mob2]
        ELSE LET d == resolve_ref(objs, pkg, "Descriptor")
             IN  IF d = <<>> THEN [err |-> TRUE, mob |-> mob2]
                 ELSE LET r == object_link(objs, d)
                      IN  IF r.err THEN [err |-> TRUE, mob |-> mob2]
                          ELSE [err |-> FALSE, mob |-> SetProp(mob2, "descriptor", r.obj)]

\* package.id in f.content.mobs: the mobs are keyed by Mob.unique_key, the id
mobs_contains(ms, id) == \E i \in 1..Len(ms) : ms[i].props["MobID"] = id

\* link_packages as it would be if a failing package rolled back the mobs
\* the call had appended for the packages before it
RECURSIVE link_packages_rollback(_, _, _, _)
link_packages_rollback(objs, packages, ms, ret) ==
    IF packages = <<>> THEN [raised |-> FALSE, mobs |-> ms, ret |-> ret]
    ELSE LET package == Head(packages)
         IN  IF package = <<>> \/ package[1].cls \notin PackageClasses
             THEN [raised |-> TRUE, mobs |-> SubSeq(ms, 1, Len(ms) - Len(ret)), ret |-> ret]
             ELSE IF mobs_contains(ms, package_id(package[1]))
             THEN link_packages_rollback(objs, Tail(packages), ms, ret)
             ELSE LET r == MXFPackage_link(objs, package[1])
                  IN  IF r.err
                      THEN [raised |-> TRUE, mobs |-> SubSeq(ms, 1, Len(ms) - Len(ret)), ret |-> ret]
                      ELSE link_packages_rollback(objs, Tail(packages), Append(ms, r.mob),
                                                  Append(ret, r.mob))

\* the package loop of MXFFile.link over the resolved Packages entries:
\* ms is f.content.mobs, ret the list the call is building
RECURSIVE link_packages(_, _, _, _)
link_packages(objs, packages, ms, ret) ==
    IF packages = <<>> THEN [raised |-> FALSE, mobs |-> ms, ret |-> ret]
    ELSE LET package == Head(packages)
         IN  IF package = <<>> \/ package[1].cls \notin PackageClasses
             THEN [raised |-> TRUE, mobs |-> ms, ret |-> ret]
             ELSE IF mobs_contains(ms, package_id(package[1]))
             THEN link_packages(objs, Tail(packages), ms, ret)
             ELSE LET r == MXFPackage_link(objs, package[1])
                  IN  IF r.err THEN [raised |-> TRUE, mobs |-> Append(ms, r.mob), ret |-> ret]
                      ELSE link_packages(objs, Tail(packages), Append(ms, r.mob),
                                         Append(ret, r.mob))

\* MXFFile.packages: the resolved entries of the content storage's Packages
packages(objs, pre) ==
    LET content == IF Has(pre[1].data, "ContentStorage")
                   THEN resolve(objs, pre[1].data["ContentStorage"]) ELSE <<>>
    IN  IF content = <<>> THEN <<>>
        ELSE iter_strong_refs(objs, content[1], "Packages")

\* MXFFile.link as it would be if the operational pattern were checked
\* after the package loop instead of before it
MXFFile_link_checks_late(objs, hop, pre, ms) ==
    IF pre = <<>> THEN [raised |-> TRUE, mobs |-> ms, ret |-> <<>>]
    ELSE LET r == link_packages(objs, packages(objs, pre), ms, <<>>)
         IN  IF operation_pattern(hop, pre) # "OPAtom"
             THEN [raised |-> TRUE, mobs |-> r.mobs, ret |-> <<>>]
             ELSE r

\* MXFFile.link(f) on destination mobs ms
MXFFile_link(objs, hop, pre, ms) ==
    IF operation_pattern(hop, pre) # "OPAtom" THEN [raised |-> TRUE, mobs |-> ms, ret |-> <<>>]
    ELSE IF pre = <<>> THEN [raised |-> TRUE, mobs |-> ms, ret |-> <<>>]
    ELSE link_packages(objs, packages(objs, pre), ms, <<>>)

\* ------------------------------------------------------------- input files
\* The files the model reads.  Every file has a preface (instance id 1), a
\* content storage (2), a material package A (3, mob id 101) with two tracks
\* (5 over a sequence 8 of one source clip 9, and 6 over a timecode 10) and a
\* source package B (4, mob id 102) with one track (7) over a segment (11,
\* with a filler child 12 where its class has children), a descriptor (13)
\* and a locator (14).  Instance id 99 is never defined.  A parameter record
\* selects the partition header, the primer, the order of the packages, one
\* defect per package, the classes of B's segment and descriptor, an
\* unrecognized unit, the instance ids and the order of the units.
E(tag, size, data) == [tag |-> tag, size |-> size, data |-> data]

Opt(cond, entries) == IF cond THEN entries ELSE <<>>

RECURSIVE body_length(_)
body_length(entries) ==
    IF entries = <<>> THEN 0 ELSE 4 + Head(entries).size + body_length(Tail(entries))

Unit(key, length, tags) ==
    [key |-> key, length |-> length, tags |-> tags,
     item_num |-> 0, item_len |-> 0, items |-> <<>>, op |-> <<>>]

SetUnit(c, tags) == Unit(SetKey(c), body_length(tags), tags)

HeaderUnit(op) == [Unit(HeaderKey, 88, <<>>) EXCEPT !.op = op]

PrimerUnit(num, len, items) ==
    [Unit(PrimerKey, 8 + len * Len(items), <<>>) EXCEPT
        !.item_num = num, !.item_len = len, !.items = items]

\* the local tags a well-formed primer of these files declares
PrimerItems ==
    << <<\Hffe0, "a0240060-94eb-75cb-ce2a-ca5051ab11d3">>,
       <<\Hffe1, "a0240060-94eb-75cb-ce2a-ca4d51ab11d3">>,
       <<\Hffe2, "a0220060-94eb-75cb-96c4-69924f6211d3">>,
       <<\Hffe3, "a0240060-94eb-75cb-ce2a-ca4c51ab11d3">> >>

OpChoice(c) ==
    CASE c = "OPAtom"    -> OPLabel(2, 16, 0)
      [] c = "OP1a"      -> OPLabel(1, 1, 1)
      [] c = "OP2b"      -> OPLabel(3, 2, 2)
      [] c = "OP1x"      -> OPLabel(1, 1, 4)
      [] c = "unrec"     -> OPLabel(1, 17, 0)
      [] c = "badprefix" -> <<6, 14, 43, 52, 4, 1, 1, 4, 13, 1, 2, 1, 16, 0, 0, 0>>

HdrOps == {"nohdr", "OPAtom", "OP1a", "OP2b", "unrec", "badprefix"}

PrefOps == {"none", "OPAtom", "OP1x", "unrec"}

\* "mid" and "late" place the well-formed primer among and after the sets
Primers == {"none", "good", "badstride", "toomany", "mid", "late"}

Orders == {<<3, 4>>, <<4, 3>>}

DefectsA == {"none", "dangling_segment", "no_segment", "no_slotid", "no_editrate",
             "seg_no_datadef", "seg_no_length", "dangling_track", "child_dangling",
             "trk2_dangling_segment"}

DefectsB == {"none", "dangling_segment", "no_slotid", "no_editrate", "seg_no_datadef",
             "seg_no_length", "dangling_track", "desc_missing_key", "dangling_desc",
             "loc_dangling"}

SegKinds == {"MXFSequence", "MXFSourceClip", "MXFTimecode", "MXFPulldown", "MXFFiller",
             "MXFScopeReference", "MXFEssenceGroup"}

DescKinds == DescriptorClasses \cup {"none"}

Unknowns == {"none", "first", "mid", "fill"}

IdChoices == {"ok", "noid", "dupid"}

UnitOrders == {"fwd", "rev"}

PreMobs == {"empty", "other", "hasA"}

ClassByte(cls) == CHOOSE c \in DOMAIN ClassOfByte : ClassOfByte[c] = cls

Id(i) == <<E(\H3c0a, 16, i)>>

Rate == <<25, 1>>

PrefaceUnit(p) ==
    SetUnit(47, Id(1) \o <<E(\H3b03, 16, 2)>>
                \o Opt(p.prefOp # "none", <<E(\H3b09, 16, OpChoice(p.prefOp))>>))

ContentStorageUnit(p) ==
    SetUnit(24, Id(2) \o <<E(\H1902, 0, <<>>), E(\H1901, 8 + 16 * Len(p.order), p.order)>>)

PackageAUnits(p) ==
    << SetUnit(54, Id(3) \o <<E(\H4401, 32, 101), E(\H4402, 4, <<0, 65, 0, 0>>),
                              E(\H4403, 40, IF p.defA = "dangling_track" THEN <<99, 6>> ELSE <<5, 6>>),
                              E(\H4405, 8, 2020)>>),
       SetUnit(59, Id(5) \o Opt(p.defA # "no_slotid", <<E(\H4801, 4, 1)>>)
                         \o Opt(p.defA # "no_editrate", <<E(\H4b01, 8, Rate)>>)
                         \o <<E(\H4802, 4, <<0, 86, 0, 0>>), E(\H4b02, 8, 0)>>
                         \o Opt(p.defA # "no_segment",
                                <<E(\H4803, 16, IF p.defA = "dangling_segment" THEN 99 ELSE 8)>>)),
       SetUnit(15, Id(8) \o Opt(p.defA # "seg_no_datadef", <<E(\H0201, 16, "picture")>>)
                         \o Opt(p.defA # "seg_no_length", <<E(\H0202, 8, 10)>>)
                         \o <<E(\H1001, 24, IF p.defA = "child_dangling" THEN <<99>> ELSE <<9>>)>>),
       SetUnit(17, Id(9) \o <<E(\H0201, 16, "picture"), E(\H0202, 8, 10), E(\H1101, 32, 102),
                              E(\H1102, 4, 1), E(\H1201, 8, 0)>>),
       SetUnit(59, Id(6) \o <<E(\H4801, 4, 2), E(\H4b01, 8, Rate),
                              E(\H4803, 16, IF p.defA = "trk2_dangling_segment" THEN 99 ELSE 10)>>),
       SetUnit(20, Id(10) \o <<E(\H0201, 16, "timecode"), E(\H0202, 8, 10), E(\H1502, 2, 25),
                               E(\H1503, 1, 0), E(\H1501, 8, 0)>>) >>

SegmentBTags(p) ==
    Opt(p.defB # "seg_no_datadef", <<E(\H0201, 16, "sound")>>)
    \o Opt(p.defB # "seg_no_length", <<E(\H0202, 8, 20)>>)
    \o CASE p.segB = "MXFSequence"       -> <<E(\H1001, 24, <<12>>)>>
         [] p.segB = "MXFSourceClip"     -> <<E(\H1102, 4, 0), E(\H1201, 8, 0)>>
         [] p.segB = "MXFTimecode"       -> <<E(\H1502, 2, 30), E(\H1503, 1, 1)>>
         [] p.segB = "MXFPulldown"       -> <<E(\H0d01, 16, 12), E(\H0d02, 1, 0), E(\H0d03, 1, 0),
                                              E(\H0d04, 4, 0)>>
         [] p.segB = "MXFFiller"         -> <<>>
         [] p.segB = "MXFScopeReference" -> <<E(\H0e01, 4, 0), E(\H0e02, 4, 1)>>
         [] p.segB = "MXFEssenceGroup"   -> <<E(\H0501, 24, <<12>>)>>

DescriptorBTags(p) ==
    Opt(p.defB # "desc_missing_key", <<E(\H3001, 8, Rate)>>)
    \o <<E(\H3002, 8, 20)>>
    \o Opt(p.descB \in {"MXFCDCIDescriptor", "MXFRGBADescriptor"},
           <<E(\H320e, 8, <<16, 9>>), E(\H3203, 4, 1920), E(\H3202, 4, 1080),
             E(\H320d, 16, <<21, 584>>), E(\H320c, 1, 1), E(\Hffe0, 4, 4096)>>)
    \o Opt(p.descB = "MXFCDCIDescriptor",
           <<E(\H3301, 4, 8), E(\H3302, 4, 2), E(\H3308, 4, 1), E(\Hffe1, 4, 1237),
             E(\H2f01, 24, IF p.defB = "loc_dangling" THEN <<99>> ELSE <<14>>)>>)
    \o Opt(p.descB = "MXFRGBADescriptor", <<E(\H3401, 16, <<82, 8, 71, 8, 66, 8>>)>>)
    \o Opt(p.descB \in {"MXFPCMDescriptor", "MXFSoundDescriptor"},
           <<E(\H3d03, 8, <<48000, 1>>), E(\H3d07, 4, 2), E(\H3d01, 4, 16)>>)
    \o Opt(p.descB = "MXFPCMDescriptor", <<E(\H3d0a, 2, 4), E(\H3d09, 4, 192000)>>)

PackageBUnits(p) ==
    << SetUnit(55, Id(4) \o <<E(\H4401, 32, 102), E(\H4402, 2, <<0, 66>>),
                              E(\H4403, 24, IF p.defB = "dangling_track" THEN <<99>> ELSE <<7>>),
                              E(\Hffe2, 4, 7)>>
                         \o Opt(p.descB # "none",
                                <<E(\H4701, 16, IF p.defB = "dangling_desc" THEN 99 ELSE 13)>>)),
       SetUnit(59, Opt(p.ids # "noid", Id(7))
                   \o Opt(p.defB # "no_slotid", <<E(\H4801, 4, 1)>>)
                   \o Opt(p.defB # "no_editrate", <<E(\H4b01, 8, Rate)>>)
                   \o <<E(\H4804, 4, 1),
                        E(\H4803, 16, IF p.defB = "dangling_segment" THEN 99 ELSE 11)>>),
       SetUnit(ClassByte(p.segB), Id(11) \o SegmentBTags(p)),
       SetUnit(9, Id(12) \o <<E(\H0201, 16, "sound"), E(\H0202, 8, 20)>>) >>
    \o Opt(p.descB # "none", <<SetUnit(ClassByte(p.descB), Id(13) \o DescriptorBTags(p))>>)
    \o <<SetUnit(50, Id(14) \o <<E(\H4001, 6, <<0, 102, 0, 58, 0, 0>>)>>)>>

\* an Identification set, a class the dispatch table does not list
UnknownUnit == SetUnit(48, Id(50) \o <<E(\H3c09, 16, 77), E(\H3c01, 0, <<>>)>>)

FillUnit == Unit(FillKey, 8, <<>>)

\* units whose instance id is missing or repeats that of the content storage
ExtraUnits(p) ==
    CASE p.ids = "ok"    -> <<>>
      [] p.ids = "noid"  -> <<SetUnit(35, <<E(\H2701, 32, 102)>>)>>
      [] p.ids = "dupid" -> <<SetUnit(35, Id(2) \o <<E(\H2701, 32, 102)>>)>>

Reverse(s) == [i \in 1..Len(s) |-> s[Len(s) + 1 - i]]

MetadataUnits(p) ==
    Opt(p.unknown = "first", <<UnknownUnit>>)
    \o <<PrefaceUnit(p), ContentStorageUnit(p)>>
    \o Opt(p.unknown = "mid", <<UnknownUnit>>)
    \o Opt(p.unknown = "fill", <<FillUnit>>)
    \o PackageAUnits(p) \o PackageBUnits(p) \o ExtraUnits(p)

FileUnits(p) ==
    LET units == IF p.unitOrder = "fwd" THEN MetadataUnits(p) ELSE Reverse(MetadataUnits(p))
        good  == <<PrimerUnit(Len(PrimerItems), 18, PrimerItems)>>
        cut   == Len(units) \div 3
    IN  Opt(p.hdrOp # "nohdr", <<HeaderUnit(OpChoice(p.hdrOp))>>)
        \o (CASE p.primer = "good"      -> good
              [] p.primer = "badstride" -> <<PrimerUnit(Len(PrimerItems), 17, PrimerItems)>>
              [] p.primer = "toomany"   -> <<PrimerUnit(65537, 18, PrimerItems)>>
              [] OTHER                  -> <<>>)
        \o (CASE p.primer = "mid"  -> SubSeq(units, 1, cut) \o good
                                      \o SubSeq(units, cut + 1, Len(units))
              [] p.primer = "late" -> units \o good
              [] OTHER             -> units)

\* a mob another import left in the destination model
ExistingMob(id) == SetProp(SetProp(Create("MasterMob"), "slots", <<>>), "MobID", id)

DestinationMobs(p) ==
    CASE p.preMobs = "empty" -> <<>>
      [] p.preMobs = "other" -> <<ExistingMob(100)>>
      [] p.preMobs = "hasA"  -> <<ExistingMob(101)>>

DefaultFile ==
    [hdrOp |-> "OPAtom", prefOp |-> "OPAtom", primer |-> "good", order |-> <<3, 4>>,
     defA |-> "none", defB |-> "none", segB |-> "MXFSourceClip",
     descB |-> "MXFCDCIDescriptor", unknown |-> "none", ids |-> "ok",
     unitOrder |-> "fwd", preMobs |-> "empty"]

\* link failures: the order of the packages, a defect in each, the destination
LinkFiles ==
    { [DefaultFile EXCEPT !.order = o, !.defA = a, !.defB = b, !.preMobs = m] :
        o \in Orders, a \in DefectsA, b \in DefectsB, m \in PreMobs }

\* the closed sets of segment and descriptor classes
KindFiles ==
    { [DefaultFile EXCEPT !.segB = s, !.descB = d, !.defB = b, !.order = o] :
        s \in SegKinds, d \in DescKinds,
        b \in {"none", "seg_no_length", "desc_missing_key"}, o \in Orders }

\* operational patterns, from the partition header and from the preface
PatternFiles ==
    { [DefaultFile EXCEPT !.hdrOp = h, !.prefOp = f, !.preMobs = m, !.defB = b] :
        h \in HdrOps, f \in PrefOps, m \in PreMobs, b \in {"none", "dangling_segment"} }

\* the parse pass: primer, unrecognized units, instance ids, order of units
ParseFiles ==
    { [DefaultFile EXCEPT !.primer = r, !.unknown = u, !.ids = i, !.unitOrder = w, !.order = o] :
        r \in Primers, u \in Unknowns, i \in IdChoices, w \in UnitOrders, o \in Orders }

\* dangling references in files read in either order of their units
OrderFiles ==
    { [DefaultFile EXCEPT !.unitOrder = w, !.defB = b, !.primer = r] :
        w \in UnitOrders, b \in {"dangling_segment", "dangling_track", "loc_dangling"},
        r \in {"good", "mid"} }

Files == LinkFiles \cup KindFiles \cup PatternFiles \cup ParseFiles \cup OrderFiles

\* ------------------------------------------------------------------- state
VARIABLES
    stream,                     \* the KLV units of the file being read
    pos,                        \* index of the unit iter_kl reads next
    pc,                         \* "parsing", "parsed", or "aborted" (__init__ raised)
    objects,                    \* MXFFile.objects: instance_id -> MXFObject
    local_tags,                 \* MXFFile.local_tags
    preface,                    \* MXFFile.preface, <<>> for None
    header_operation_pattern,   \* MXFFile.header_operation_pattern, <<>> for None
    mobs,                       \* f.content.mobs of the destination model
    linkCalls,                  \* number of MXFFile.link calls made
    lastLink,                   \* outcome of the last MXFFile.link call
    arg,                        \* the input of the function under study
    res,                        \* what the function returned or raised
    res2,                       \* what the inverse function made of res
    fn_pc,                      \* "idle", "ready", "applied", "inverted", "stopped"
    f_tell,                     \* f.tell(): the cursor of the file iter_kl reads
    kl_pos,                     \* the local `pos` of the generator iter_kl
    kl_out,                     \* the (key, length) pairs iter_kl has yielded
    kl_at                       \* the offsets at which iter_kl read its keys

vars == <<stream, pos, pc, objects, local_tags, preface, header_operation_pattern,
          mobs, linkCalls, lastLink>>

parseVars == <<objects, local_tags, preface, header_operation_pattern>>

\* the state of the codec and reader functions studied on their own
fnVars == <<arg, res, res2, fn_pc, f_tell, kl_pos, kl_out, kl_at>>

\* no function is under study while a file is read and linked
FnIdle ==
    /\ arg = <<>>
    /\ res = <<>>
    /\ res2 = <<>>
    /\ fn_pc = "idle"
    /\ f_tell = 0
    /\ kl_pos = 0
    /\ kl_out = <<>>
    /\ kl_at = <<>>

\* no file is read while a function is studied on its own
FileIdle ==
    /\ stream = <<>>
    /\ mobs = <<>>
    /\ pos = 1
    /\ pc = "idle"
    /\ objects = EmptyDict
    /\ local_tags = Tags(EmptyDict)
    /\ preface = <<>>
    /\ header_operation_pattern = <<>>
    /\ linkCalls = 0
    /\ lastLink = [raised |-> FALSE, ret |-> <<>>]

\* MXFFile.__init__ up to the loop over iter_kl
Init ==
    \E p \in Files :
        /\ stream = FileUnits(p)
        /\ mobs = DestinationMobs(p)
        /\ pos = 1
        /\ pc = "parsing"
        /\ objects = EmptyDict
        /\ local_tags = Tags(EmptyDict)
        /\ preface = <<>>
        /\ header_operation_pattern = <<>>
        /\ linkCalls = 0
        /\ lastLink = [raised |-> FALSE, ret |-> <<>>]
        /\ FnIdle

\* ReadUnit as it would be if the constructor resolved the references of an
\* object as it decoded it and rejected the file on a target not yet read
ReadUnit_resolving ==
    /\ pc = "parsing"
    /\ pos <= Len(stream)
    /\ LET u    == stream[pos]
           tags == IF u.key = PrimerKey THEN read_primer(u) ELSE local_tags
           hop  == IF u.key = HeaderKey THEN u.op ELSE header_operation_pattern
           obj  == read_object(u, tags)
           refs == IF obj = <<>> THEN {}
                   ELSE { obj[1].data[f] :
                            f \in {"Segment", "InputSegment", "Descriptor"} \cap DOMAIN obj[1].data }
       IN  IF obj # <<>> /\ (obj[1].err \/ ~(refs \subseteq DOMAIN objects))
           THEN /\ pc' = "aborted"
                /\ UNCHANGED <<pos, objects, local_tags, preface, header_operation_pattern>>
           ELSE /\ local_tags' = tags
                /\ header_operation_pattern' = hop
                /\ objects' = IF obj # <<>>
                              THEN Put(objects, obj[1].instance_id,
                                       [cls |-> obj[1].cls, instance_id |-> obj[1].instance_id,
                                        data |-> obj[1].data])
                              ELSE objects
                /\ preface' = IF obj # <<>> /\ obj[1].cls = "MXFPreface"
                              THEN <<[cls |-> obj[1].cls, instance_id |-> obj[1].instance_id,
                                      data |-> obj[1].data]>>
                              ELSE preface
                /\ pos' = pos + 1
                /\ pc' = pc
    /\ UNCHANGED <<stream, mobs, linkCalls, lastLink, fnVars>>

\* one iteration of the loop of MXFFile.__init__ over iter_kl: the primer
\* and the partition header are picked up by key, read_object decodes the
\* unit, and a decoded object is registered under its instance_id
ReadUnit ==
    /\ pc = "parsing"
    /\ pos <= Len(stream)
    /\ LET u    == stream[pos]
           tags == IF u.key = PrimerKey THEN read_primer(u) ELSE local_tags
           hop  == IF u.key = HeaderKey THEN u.op ELSE header_operation_pattern
           obj  == read_object(u, tags)
       IN  IF obj # <<>> /\ obj[1].err
           THEN /\ pc' = "aborted"
                /\ UNCHANGED <<pos, objects, local_tags, preface, header_operation_pattern>>
           ELSE /\ local_tags' = tags
                /\ header_operation_pattern' = hop
                /\ objects' = IF obj # <<>>
                              THEN Put(objects, obj[1].instance_id,
                                       [cls |-> obj[1].cls, instance_id |-> obj[1].instance_id,
                                        data |-> obj[1].data])
                              ELSE objects
                /\ preface' = IF obj # <<>> /\ obj[1].cls = "MXFPreface"
                              THEN <<[cls |-> obj[1].cls, instance_id |-> obj[1].instance_id,
                                      data |-> obj[1].data]>>
                              ELSE preface
                /\ pos' = pos + 1
                /\ pc' = pc
    /\ UNCHANGED <<stream, mobs, linkCalls, lastLink, fnVars>>

\* iter_kl finds no further key: the constructor returns
ParseDone ==
    /\ pc = "parsing"
    /\ pos > Len(stream)
    /\ pc' = "parsed"
    /\ UNCHANGED <<stream, pos, parseVars, mobs, linkCalls, lastLink, fnVars>>

\* Link as it would be if MXFPackage.link consumed (popped) the Slots field
\* of the objects it walks
Link_consuming ==
    /\ pc = "parsed"
    /\ linkCalls < MaxLinkCalls
    /\ LET r == MXFFile_link(objects, header_operation_pattern, preface, mobs)
       IN  /\ mobs' = r.mobs
           /\ lastLink' = [raised |-> r.raised, ret |-> IF r.raised THEN <<>> ELSE r.ret]
    /\ linkCalls' = linkCalls + 1
    /\ objects' = [k \in DOMAIN objects |->
                     [objects[k] EXCEPT !.data = [f \in (DOMAIN @) \ {"Slots"} |-> @[f]]]]
    /\ UNCHANGED <<stream, pos, pc, local_tags, preface, header_operation_pattern, fnVars>>

\* one call of MXFFile.link(f) on the parsed file
Link ==
    /\ pc = "parsed"
    /\ linkCalls < MaxLinkCalls
    /\ LET r == MXFFile_link(objects, header_operation_pattern, preface, mobs)
       IN  /\ mobs' = r.mobs
           /\ lastLink' = [raised |-> r.raised, ret |-> IF r.raised THEN <<>> ELSE r.ret]
    /\ linkCalls' = linkCalls + 1
    /\ UNCHANGED <<stream, pos, pc, parseVars, fnVars>>

Next == ReadUnit \/ ParseDone \/ Link

Spec == Init /\ [][Next]_vars

\* ------------------------------------------------------------- properties
\* a step that is one MXFFile.link call
LinkStep == linkCalls' = linkCalls + 1

\* the ids of the mobs of a destination collection
MobIds(ms) == { ms[i].props["MobID"] : i \in 1..Len(ms) }

\* C1: MXFFile.link on a file whose operational pattern is anything other
\* than OPAtom raises, and the destination's mob collection after the failed
\* call is the one before it.
C1_NonOPAtomLinkFails ==
    [][ (LinkStep /\ operation_pattern(header_operation_pattern, preface) # "OPAtom")
            => (lastLink'.raised /\ mobs' = mobs) ]_vars

\* a failed link of a file that resolves to OP1a, into a destination that
\* holds a mob, and nothing else wrong with the file
C1_Witness ==
    /\ linkCalls = 1
    /\ operation_pattern(header_operation_pattern, preface) = "OP1a"
    /\ lastLink.raised
    /\ mobs = <<ExistingMob(100)>>
    /\ Len(packages(objects, preface)) = 2

\* the resolved Packages entries MXFFile.link iterates over
Pkgs == IF preface = <<>> THEN <<>> ELSE packages(objects, preface)

IsOPAtom == operation_pattern(header_operation_pattern, preface) = "OPAtom"

\* entry i of Packages resolves to a package object
IsPackage(i) == Pkgs[i] # <<>> /\ Pkgs[i][1].cls \in PackageClasses

\* package i links without an exception when linked on its own
LinksAlone(i) == IsPackage(i) /\ ~MXFPackage_link(objects, Pkgs[i][1]).err

\* the strong references an object holds
RefsOf(o) ==
    UNION { { o.data[f][k] : k \in 1..Len(o.data[f]) } :
                f \in {"Slots", "Components", "Choices", "Locator"} \cap DOMAIN o.data }
    \cup { o.data[f] : f \in {"Segment", "InputSegment", "Descriptor"} \cap DOMAIN o.data }

\* the instance ids reachable from ids in at most n reference hops
RECURSIVE Subtree(_, _)
Subtree(ids, n) ==
    IF n = 0 THEN ids
    ELSE Subtree(ids \cup UNION { RefsOf(objects[i]) : i \in ids \cap DOMAIN objects }, n - 1)

\* the subtree of package i holds a reference that does not resolve
HasUnresolvedRef(i) ==
    IsPackage(i) /\ \E r \in Subtree({Pkgs[i][1].instance_id}, 4) : r \notin DOMAIN objects

\* package i has a track whose Segment reference is dangling
HasDanglingSegment(i) ==
    /\ IsPackage(i)
    /\ \E t \in RefsOf([data |-> [Slots |-> IF Has(Pkgs[i][1].data, "Slots")
                                          THEN Pkgs[i][1].data["Slots"] ELSE <<>>]]) :
          /\ t \in DOMAIN objects
          /\ objects[t].cls = "MXFTrack"
          /\ Has(objects[t].data, "Segment")
          /\ objects[t].data["Segment"] \notin DOMAIN objects

\* C2: linking a two-package OPAtom file in which package B has a track with
\* a dangling Segment reference leaves package A's mob in the destination
\* with all its slots and no mob carrying package B's mob id.
C2_DanglingSegmentLeavesNoMob ==
    [][ \A a, b \in 1..Len(Pkgs) :
          ( /\ LinkStep /\ IsOPAtom /\ mobs = <<>>
            /\ Len(Pkgs) = 2 /\ a # b
            /\ LinksAlone(a) /\ HasDanglingSegment(b) )
          => ( /\ \E j \in 1..Len(mobs') :
                      /\ mobs'[j].props["MobID"] = package_id(Pkgs[a][1])
                      /\ Len(mobs'[j].props["slots"]) = Len(Pkgs[a][1].data["Slots"])
               /\ package_id(Pkgs[b][1]) \notin MobIds(mobs') ) ]_vars

\* C3: for every order of the packages, a package whose subtree holds an
\* unresolvable reference does not stop the linking of its siblings: every
\* other package that links on its own is linked by the same call.
C3_PerPackageIsolation ==
    [][ \A a, b \in 1..Len(Pkgs) :
          ( /\ LinkStep /\ IsOPAtom
            /\ a # b
            /\ LinksAlone(a) /\ HasUnresolvedRef(b) )
          => package_id(Pkgs[a][1]) \in MobIds(mobs') ]_vars

\* no two mobs of the destination carry the same mob id
UniqueMobIds(ms) == \A i, j \in 1..Len(ms) : ms[i].props["MobID"] = ms[j].props["MobID"] => i = j

\* C4: linking is idempotent keyed by mob id: each mob id occurs at most once
\* among the destination mobs after any number of link calls, and a second
\* link call of the same file creates no mob.
C4_RelinkCreatesNoMob ==
    [][ LinkStep => (UniqueMobIds(mobs') /\ (linkCalls >= 1 => mobs' = mobs)) ]_vars

\* C5: once parsing has finished no step, a link call that returns or one
\* that raises, changes the object table, an object's instance_id or field
\* mapping, the primer, the header label or the preface.
C5_LinkLeavesGraphUnchanged ==
    [][ pc = "parsed" =>
          /\ objects' = objects
          /\ local_tags' = local_tags
          /\ preface' = preface
          /\ header_operation_pattern' = header_operation_pattern ]_vars

\* two link calls, the first raising in package B and the second returning
\* package A's mob, over a parsed graph
C5_Witness ==
    /\ linkCalls = 2
    /\ pc = "parsed"
    /\ ~lastLink.raised
    /\ Len(lastLink.ret) = 1
    /\ Len(mobs) = 2
    /\ Cardinality(DOMAIN objects) >= 14

\* C6: a link call that raises removes and changes nothing: the mobs that
\* were in the destination before the call are still its first mobs, and
\* the mob of every package linked before the failing one is present as
\* MXFPackage.link built it.
C6_FailedLinkKeepsMobs ==
    [][ (LinkStep /\ lastLink'.raised) =>
          /\ Len(mobs') >= Len(mobs)
          /\ SubSeq(mobs', 1, Len(mobs)) = mobs
          /\ \A i \in 1..Len(Pkgs) :
                (IsOPAtom /\ \A k \in 1..i : LinksAlone(k))
                => /\ package_id(Pkgs[i][1]) \in MobIds(mobs')
                   /\ package_id(Pkgs[i][1]) \notin MobIds(mobs)
                        => \E j \in 1..Len(mobs') :
                              mobs'[j] = MXFPackage_link(objects, Pkgs[i][1]).mob ]_vars

\* a link that raised in package B after linking package A, into a
\* destination that held a mob: all three are there
C6_Witness ==
    /\ linkCalls = 1
    /\ lastLink.raised
    /\ Len(mobs) = 3
    /\ mobs[1] = ExistingMob(100)
    /\ mobs[2].props["MobID"] = 101
    /\ Len(mobs[2].props["slots"]) = 2
    /\ mobs[3].props["MobID"] = 102

\* package i lacks a field its link requires: a track without SlotID or
\* EditRate, a segment without DataDef (or, unless it is a source clip,
\* without Length), a CDCI, RGBA or PCM descriptor without SampleRate
MissingRequired(i) ==
    /\ IsPackage(i)
    /\ \E r \in Subtree({Pkgs[i][1].instance_id}, 2) \cap DOMAIN objects :
          \/ /\ objects[r].cls = "MXFTrack"
             /\ ~Has(objects[r].data, "SlotID") \/ ~Has(objects[r].data, "EditRate")
          \/ /\ objects[r].cls \in ComponentClasses
             /\ \/ ~Has(objects[r].data, "DataDef")
                \/ ~Has(objects[r].data, "Length") /\ objects[r].cls # "MXFSourceClip"
          \/ /\ objects[r].cls \in {"MXFCDCIDescriptor", "MXFRGBADescriptor", "MXFPCMDescriptor"}
             /\ ~Has(objects[r].data, "SampleRate")

\* C7: a required field missing at link time makes the link of that package
\* fail and leaves no partial mob of the package in the destination.
C7_MissingFieldLeavesNoMob ==
    [][ \A i \in 1..Len(Pkgs) :
          ( /\ LinkStep /\ IsOPAtom
            /\ MissingRequired(i)
            /\ package_id(Pkgs[i][1]) \notin MobIds(mobs) )
          => (lastLink'.raised /\ package_id(Pkgs[i][1]) \notin MobIds(mobs')) ]_vars

\* the units read so far
UnitsRead == 1..(pos - 1)

\* a unit whose key is in the dispatch table
Recognized(u) == \E c \in DOMAIN ClassOfByte : u.key = SetKey(c)

\* the instance id a unit's body carries (its last non-empty 0x3c0a entry),
\* 0 when it carries none
UnitInstanceId(u) ==
    LET ids == SelectSeq(u.tags, LAMBDA e : e.tag = \H3c0a /\ e.size > 0)
    IN  IF ids = <<>> THEN 0 ELSE ids[Len(ids)].data

\* a primer unit whose stride is not 18 or whose count exceeds 65536
BadPrimer(u) == u.key = PrimerKey /\ (u.item_len # 18 \/ u.item_num > 65536)

\* C8: a primer whose stride is not 18 (or whose count exceeds 65536) yields
\* an empty primer and does not abort the parse: the objects of the units
\* after it are still decoded and registered.
C8_BadPrimerDoesNotAbort ==
    (\E i \in UnitsRead : BadPrimer(stream[i])) =>
        /\ pc # "aborted"
        /\ pc = "parsed" =>
              /\ local_tags = Tags(EmptyDict)
              /\ \A j \in 1..Len(stream) :
                    Recognized(stream[j]) => UnitInstanceId(stream[j]) \in DOMAIN objects

\* C9: a unit whose class is not in the dispatch table registers nothing and
\* does not stop the parse: at every point of the pass the keys of the
\* object table are the instance ids of the recognized units read so far,
\* those after an unrecognized unit included, each held by an object of a
\* recognized class.
C9_UnknownClassSkipped ==
    pc \in {"parsing", "parsed"} =>
        /\ DOMAIN objects =
              { UnitInstanceId(stream[i]) : i \in { j \in UnitsRead : Recognized(stream[j]) } }
        /\ \A k \in DOMAIN objects : objects[k].cls \in { ClassOfByte[c] : c \in DOMAIN ClassOfByte }

\* a finished pass over a stream with an Identification set (instance id 50)
\* ahead of recognized units: they are in the table and it is not
C9_Witness ==
    /\ pc = "parsed"
    /\ 50 \notin DOMAIN objects
    /\ \E i, j \in 1..Len(stream) :
          /\ i < j
          /\ stream[i].key = SetKey(48)
          /\ UnitInstanceId(stream[i]) = 50
          /\ Recognized(stream[j])
          /\ UnitInstanceId(stream[j]) \in DOMAIN objects

\* the last unit read that satisfies P, 0 when there is none
LastUnit(P(_)) ==
    LET S == { i \in UnitsRead : P(stream[i]) }
    IN  IF S = {} THEN 0 ELSE CHOOSE i \in S : \A j \in S : j <= i

IsPrefaceUnit(u) == u.key = SetKey(47)

\* C10 as claimed: after the pass there is one table entry per decoded
\* object, each under a real instance id, and the root is the decoded
\* Preface whenever a Preface unit was read.
C10_OneEntryPerObject ==
    pc = "parsed" =>
        /\ Cardinality(DOMAIN objects) = Cardinality({ i \in UnitsRead : Recognized(stream[i]) })
        /\ 0 \notin DOMAIN objects
        /\ \A i \in UnitsRead :
              Recognized(stream[i]) => UnitInstanceId(stream[i]) \in DOMAIN objects
        /\ (\E i \in UnitsRead : IsPrefaceUnit(stream[i])) => preface # <<>>

\* C10 as amended: after the pass every object decoded from a recognized
\* unit is in the table under the instance id its unit carries (under None,
\* here 0, when it carries none) unless a later decoded object with the same
\* id replaced it, and the root is the last decoded Preface.
C10_RegisteredUnderUnitId ==
    pc = "parsed" =>
        /\ \A i \in UnitsRead :
              Recognized(stream[i]) =>
                LET k == UnitInstanceId(stream[i])
                    last == LastUnit(LAMBDA u : Recognized(u) /\ UnitInstanceId(u) = k)
                IN  /\ k \in DOMAIN objects
                    /\ objects[k].instance_id = k
                    /\ objects[k].cls = ClassOfByte[stream[last].key[15]]
        /\ LET lp == LastUnit(IsPrefaceUnit)
           IN  IF lp = 0 THEN preface = <<>>
               ELSE /\ preface # <<>>
                    /\ preface[1].cls = "MXFPreface"
                    /\ preface[1].instance_id = UnitInstanceId(stream[lp])

\* a finished pass over a file with two units that carry no instance id:
\* the table has an entry under None, held by the later of the two, and the
\* preface is the root
C10_Witness ==
    /\ pc = "parsed"
    /\ 0 \in DOMAIN objects
    /\ Cardinality({ i \in UnitsRead : Recognized(stream[i]) /\ UnitInstanceId(stream[i]) = 0 }) = 2
    /\ preface # <<>>
    /\ preface[1].instance_id = 1

\* ----------------------------------------------------- order of the units
\* the loop of MXFFile.__init__ run over a whole sequence of units, from the
\* table and primer of st; aborted is set when read_object raised
RECURSIVE read_units(_, _)
read_units(units, st) ==
    IF units = <<>> \/ st.aborted THEN st
    ELSE LET u    == Head(units)
             tags == IF u.key = PrimerKey THEN read_primer(u) ELSE st.local_tags
             obj  == read_object(u, tags)
         IN  IF obj # <<>> /\ obj[1].err THEN [st EXCEPT !.aborted = TRUE]
             ELSE read_units(Tail(units),
                     [objects    |-> IF obj # <<>>
                                     THEN Put(st.objects, obj[1].instance_id,
                                              [cls |-> obj[1].cls,
                                               instance_id |-> obj[1].instance_id,
                                               data |-> obj[1].data])
                                     ELSE st.objects,
                      local_tags |-> tags,
                      aborted    |-> FALSE])

\* the object table MXFFile.__init__ builds from a sequence of units
ObjectTable(units) ==
    read_units(units, [objects |-> EmptyDict, local_tags |-> Tags(EmptyDict),
                       aborted |-> FALSE]).objects

\* the positions of the object units (local sets) of the stream
SetIndexes == { i \in 1..Len(stream) : stream[i].key[6] = 83 }

Swap(s, i, j) == [s EXCEPT ![i] = s[j], ![j] = s[i]]

\* the stream with its object units in reverse order, the other units in place
ReverseSets ==
    LET rank(i) == Cardinality({ k \in SetIndexes : k <= i })
        nth(r)  == CHOOSE i \in SetIndexes : rank(i) = r
        n       == Cardinality(SetIndexes)
    IN  [i \in 1..Len(stream) |->
            IF i \in SetIndexes THEN stream[nth(n + 1 - rank(i))] ELSE stream[i]]

\* two object units with no object unit between them, or the first and the
\* last object unit
Exchanged(i, j) ==
    /\ i \in SetIndexes
    /\ j \in SetIndexes
    /\ i < j
    /\ \/ \A k \in SetIndexes : k <= i \/ k >= j
       \/ \A k \in SetIndexes : k >= i /\ k <= j

\* other orderings of the object units of the stream: the exchanges of two
\* neighbouring units and of the first with the last, and the reversal
Orderings ==
    { Swap(stream, q[1], q[2]) : q \in { q \in SetIndexes \X SetIndexes : Exchanged(q[1], q[2]) } }
    \cup {ReverseSets}

\* the orderings that move no object unit across a primer unit
PrimerBetween(i, j) == \E k \in i..j : stream[k].key = PrimerKey

OrderingsWithinPrimer ==
    { Swap(stream, q[1], q[2]) :
        q \in { q \in SetIndexes \X SetIndexes :
                   Exchanged(q[1], q[2]) /\ ~PrimerBetween(q[1], q[2]) } }
    \cup { s \in {ReverseSets} :
              \A k \in 1..Len(stream) :
                  stream[k].key = PrimerKey =>
                     \/ \A i \in SetIndexes : k < i
                     \/ \A i \in SetIndexes : k > i }

\* the recognized units of the stream carry pairwise distinct instance ids
DistinctIds ==
    \A i, j \in 1..Len(stream) :
        (i # j /\ Recognized(stream[i]) /\ Recognized(stream[j]))
            => UnitInstanceId(stream[i]) # UnitInstanceId(stream[j])

\* the recognized units whose object the table holds, looked at as the
\* pass goes: the unit just read while it runs, every unit read once it
\* has ended
HeldUnits ==
    { i \in (IF pc = "parsed" THEN UnitsRead ELSE UnitsRead \cap {pos - 1}) :
        /\ Recognized(stream[i])
        /\ LastUnit(LAMBDA u : Recognized(u) /\ UnitInstanceId(u) = UnitInstanceId(stream[i])) = i }

\* the references the body of a recognized unit carries
UnitRefs(u) ==
    LET tbl  == ClassTags(read_table(u.key))
        refs == SelectSeq(u.tags, LAMBDA e : e.size > 0 /\ e.tag \in DOMAIN tbl)
    IN  UNION { IF tbl[refs[n].tag] \in {"Slots", "Components", "Choices", "Locator"}
                THEN { refs[n].data[k] : k \in 1..Len(refs[n].data) }
                ELSE IF tbl[refs[n].tag] \in {"Segment", "InputSegment", "Descriptor"}
                THEN {refs[n].data}
                ELSE {} : n \in 1..Len(refs) }

\* the ids resolve is asked for: those of either table and a dangling one
SameResolve(t1, t2) ==
    \A r \in DOMAIN t1 \cup DOMAIN t2 \cup {99} : resolve(t1, r) = resolve(t2, r)

\* no unit is rejected or dropped for a reference it holds: the pass aborts
\* only after a malformed primer, and every recognized unit read is in the
\* table with the references its body carries, resolved or not
KeepsUnresolvedRefs ==
    /\ pc = "aborted" => \E i \in UnitsRead : BadPrimer(stream[i])
    /\ pc \in {"parsing", "parsed"} =>
          \A i \in HeldUnits :
              /\ UnitInstanceId(stream[i]) \in DOMAIN objects
              /\ RefsOf(objects[UnitInstanceId(stream[i])]) = UnitRefs(stream[i])

\* a dangling single reference is an error of resolve_ref alone: resolve and
\* iter_strong_refs hand back None for it
DanglingFailsOnResolveRef ==
    \A k \in DOMAIN objects :
        /\ \A f \in {"Segment", "InputSegment", "Descriptor"} \cap DOMAIN objects[k].data :
              objects[k].data[f] \notin DOMAIN objects
                 => /\ resolve(objects, objects[k].data[f]) = <<>>
                    /\ resolve_ref(objects, objects[k], f) = <<>>
        /\ \A f \in {"Slots", "Components", "Choices", "Locator"} \cap DOMAIN objects[k].data :
              \A n \in 1..Len(objects[k].data[f]) :
                  objects[k].data[f][n] \notin DOMAIN objects
                     => iter_strong_refs(objects, objects[k], f)[n] = <<>>

VendorFields == { UidField[uid] : uid \in DOMAIN UidField }

\* the last primer unit ahead of unit i, 0 when there is none
PrimerBefore(i) ==
    LET S == { j \in 1..(i - 1) : stream[j].key = PrimerKey }
    IN  IF S = {} THEN 0 ELSE CHOOSE j \in S : \A k \in S : k <= j

\* primer unit j maps the tag of a non-empty entry of unit i to the UUID of
\* vendor field F
MapsVendorTag(j, i, F) ==
    \E n \in 1..Len(stream[j].items) : \E e \in 1..Len(stream[i].tags) :
        /\ stream[i].tags[e].size > 0
        /\ stream[j].items[n][1] = stream[i].tags[e].tag
        /\ stream[j].items[n][2] \in DOMAIN UidField
        /\ UidField[stream[j].items[n][2]] = F

Restrict(d, S) == [k \in DOMAIN d \cap S |-> d[k]]

\* C12: an object's vendor fields (FrameSampleSize, ResolutionID, AppCode)
\* are decoded only when a primer mapping their tag to the matching UUID
\* was read earlier in the stream than the object's unit (and are decoded
\* when the last primer read ahead of the unit maps it); the fields matched
\* by tag value, the instance id among them, are what they are with no
\* primer read at all.
C12_VendorFieldsNeedEarlierPrimer ==
    pc \in {"parsing", "parsed"} =>
        \A i \in HeldUnits :
            LET o     == objects[UnitInstanceId(stream[i])]
                plain == read_properties(NewObject(read_table(stream[i].key)), stream[i],
                                         Tags(EmptyDict))
            IN  /\ \A F \in VendorFields :
                      /\ Has(o.data, F) => \E j \in 1..(i - 1) :
                                              stream[j].key = PrimerKey /\ MapsVendorTag(j, i, F)
                      /\ Has(o.data, F) <=> (PrimerBefore(i) # 0 /\ MapsVendorTag(PrimerBefore(i), i, F))
                /\ o.instance_id = plain.instance_id
                /\ Restrict(o.data, DOMAIN o.data \ VendorFields) = plain.data
                /\ plain.data = Restrict(plain.data, DOMAIN plain.data \ VendorFields)

\* a finished pass over a file whose primer stands between two units that
\* both carry a tag it maps: the one ahead of it has no vendor field, the
\* one after it has
C12_Witness ==
    /\ pc = "parsed"
    /\ \E i, j \in HeldUnits : \E p \in 1..Len(stream) : \E F, G \in VendorFields :
          /\ i < p
          /\ p < j
          /\ stream[p].key = PrimerKey
          /\ MapsVendorTag(p, i, F)
          /\ MapsVendorTag(p, j, G)
          /\ ~Has(objects[UnitInstanceId(stream[i])].data, F)
          /\ Has(objects[UnitInstanceId(stream[j])].data, G)
          /\ objects[UnitInstanceId(stream[i])].instance_id = UnitInstanceId(stream[i])

\* ============================================================ byte readers
\* A file opened for reading is the sequence of its bytes; the cursor
\* (f.tell()) is the number of bytes ahead of it.

Min(a, b) == IF a <= b THEN a ELSE b

\* f.read(n) with the cursor at `at`: the bytes handed back, fewer than n at
\* the end of the file
f_read(data, at, n) == SubSeq(data, at + 1, Min(at + n, Len(data)))

\* utils.int_from_bytes: the bytes as a big-endian unsigned integer
RECURSIVE int_from_bytes(_)
int_from_bytes(bs) ==
    IF bs = <<>> THEN 0
    ELSE int_from_bytes(SubSeq(bs, 1, Len(bs) - 1)) * 256 + bs[Len(bs)]

\* ber_length as it would be if it took the whole first byte, not the byte
\* less 128, for the number of length bytes past the short form
ber_length_keeps_high_bit(data, at) ==
    LET first == f_read(data, at, 1)
    IN  IF first = <<>> THEN [err |-> TRUE, length |-> 0, at |-> at]
        ELSE IF first[1] > 127
             THEN LET bs == f_read(data, at + 1, first[1] - 127)
                  IN  [err |-> FALSE, length |-> int_from_bytes(bs), at |-> at + 1 + Len(bs)]
             ELSE [err |-> FALSE, length |-> first[1], at |-> at + 1]

\* ber_length(f) with the cursor at `at`: the decoded length and the cursor
\* after it; err is the struct.error of read_u8 at the end of the file
ber_length(data, at) ==
    LET first == f_read(data, at, 1)
    IN  IF first = <<>> THEN [err |-> TRUE, length |-> 0, at |-> at]
        ELSE IF first[1] > 127
             THEN LET bs == f_read(data, at + 1, first[1] - 128)
                  IN  [err |-> FALSE, length |-> int_from_bytes(bs), at |-> at + 1 + Len(bs)]
             ELSE [err |-> FALSE, length |-> first[1], at |-> at + 1]

\* ------------------------------------------------------- ber_length inputs
\* the byte strings of a set, up to n bytes long
RECURSIVE ByteStrings(_, _)
ByteStrings(alphabet, n) ==
    IF n = 0 THEN {<<>>}
    ELSE LET shorter == ByteStrings(alphabet, n - 1)
         IN  shorter \cup { Append(s, b) : s \in shorter, b \in alphabet }

\* short forms, and long forms of up to MaxLengthBytes length bytes, each
\* followed by up to MaxLengthBytes + 1 bytes
BerInputs ==
    {<<>>} \cup
    { <<b>> \o s : b \in {0, 5, 127} \cup { 128 + k : k \in 0..MaxLengthBytes },
                   s \in ByteStrings({0, 1, 5, 128, 255}, MaxLengthBytes + 1) }

\* a call of ber_length on a file that holds arg, the cursor at its start
InitBer ==
    /\ FileIdle
    /\ arg \in BerInputs
    /\ res = <<>>
    /\ res2 = <<>>
    /\ fn_pc = "ready"
    /\ f_tell = 0
    /\ kl_pos = 0
    /\ kl_out = <<>>
    /\ kl_at = <<>>

BerLength ==
    /\ fn_pc = "ready"
    /\ res' = ber_length(arg, f_tell)
    /\ f_tell' = res'.at
    /\ fn_pc' = "applied"
    /\ UNCHANGED <<vars, arg, res2, kl_pos, kl_out, kl_at>>

NextBer == BerLength

SpecBer == InitBer /\ [][NextBer]_<<vars, fnVars>>

\* the bytes bs[1..n] as a big-endian number, digit by digit
RECURSIVE Pow256(_)
Pow256(n) == IF n = 0 THEN 1 ELSE 256 * Pow256(n - 1)

RECURSIVE BigEndian(_, _)
BigEndian(bs, i) ==
    IF i > Len(bs) THEN 0 ELSE bs[i] * Pow256(Len(bs) - i) + BigEndian(bs, i + 1)

\* C15: BER length decode: a first byte b < 128 is the length itself and one
\* byte is consumed; a first byte b >= 128 means the next b - 128 bytes are
\* the length as a big-endian unsigned integer and 1 + (b - 128) bytes are
\* consumed; 0x05 gives 5 and 0x82 0x01 0x00 gives 256.
C15_BerLength ==
    (fn_pc = "applied" /\ arg # <<>>) =>
        LET b == arg[1]
        IN  /\ b < 128 => (~res.err /\ res.length = b /\ f_tell = 1)
            /\ (b >= 128 /\ Len(arg) >= 1 + (b - 128)) =>
                  /\ ~res.err
                  /\ res.length = BigEndian(SubSeq(arg, 2, 1 + (b - 128)), 1)
                  /\ f_tell = 1 + (b - 128)
            /\ arg = <<5>> => res.length = 5
            /\ (Len(arg) >= 3 /\ SubSeq(arg, 1, 3) = <<130, 1, 0>>) => res.length = 256

\* ber_length has read the long form 0x82 0x01 0x00 ahead of a further byte
C15_Witness ==
    /\ fn_pc = "applied"
    /\ Len(arg) = 4
    /\ SubSeq(arg, 1, 3) = <<130, 1, 0>>
    /\ res.length = 256
    /\ f_tell = 3

\* ------------------------------------------------------------------ iter_kl
\* a KLV unit as written: its key, its length field and its value
KLUnit(key, ber, length) == [key |-> key, ber |-> ber, length |-> length]

\* the short form of a length, and its long forms of one and two bytes
BerForms(length) ==
    {<<129, length>>, <<130, 0, length>>} \cup { <<b>> : b \in {length} \cap 0..127 }

KLUnitChoices ==
    { KLUnit(key, ber, length) :
        key \in {SetKey(47), FillKey}, ber \in BerForms(0) \cup BerForms(2),
        length \in {0, 2} }

\* the well-formed units: those whose length field gives their length
KLUnits == { u \in KLUnitChoices : u.ber \in BerForms(u.length) }

RECURSIVE UnitSeqs(_)
UnitSeqs(n) ==
    IF n = 0 THEN {<<>>}
    ELSE LET shorter == UnitSeqs(n - 1)
         IN  shorter \cup { Append(s, u) : s \in shorter, u \in KLUnits }

\* the value of a unit: `length` bytes, none of them zero
ValueBytes(length) == [i \in 1..length |-> 200 + i]

RECURSIVE KLBytes(_)
KLBytes(units) ==
    IF units = <<>> THEN <<>>
    ELSE Head(units).key \o Head(units).ber \o ValueBytes(Head(units).length)
         \o KLBytes(Tail(units))

\* iter_kl(f) on a file of up to MaxKLUnits units, whole or with the last
\* byte of the last value missing; the generator has not run yet
InitKL ==
    /\ FileIdle
    /\ \E units \in UnitSeqs(MaxKLUnits) : \E short \in {0, 1} :
          /\ short = 1 => (units # <<>> /\ units[Len(units)].length > 0)
          /\ arg = [units |-> units,
                    data  |-> SubSeq(KLBytes(units), 1, Len(KLBytes(units)) - short)]
    /\ res = <<>>
    /\ res2 = <<>>
    /\ fn_pc = "resume"
    /\ f_tell = 0
    /\ kl_pos = 0
    /\ kl_out = <<>>
    /\ kl_at = <<>>

\* KLNext as it would be if the generator read on from where the consumer
\* left the cursor instead of seeking to pos
KLNext_no_seek ==
    /\ fn_pc = "resume"
    /\ LET key == f_read(arg.data, f_tell, 16)
           ber == ber_length(arg.data, f_tell + 16)
       IN  IF key = <<>>
           THEN /\ fn_pc' = "stopped"
                /\ UNCHANGED <<kl_pos, kl_out, kl_at, f_tell>>
           ELSE IF Len(key) < 16 \/ ber.err
           THEN /\ fn_pc' = "raised"
                /\ f_tell' = IF Len(key) < 16 THEN f_tell + Len(key) ELSE ber.at
                /\ UNCHANGED <<kl_pos, kl_out, kl_at>>
           ELSE /\ kl_at' = Append(kl_at, f_tell)
                /\ kl_out' = Append(kl_out, [key |-> key, length |-> ber.length])
                /\ kl_pos' = ber.at + ber.length
                /\ f_tell' = ber.at
                /\ fn_pc' = "yielded"
    /\ UNCHANGED <<vars, arg, res, res2>>

\* one pass of the loop of iter_kl, from f.seek(pos) to the yield: the key
\* read at pos, the length after it, pos moved on to the end of the value.
\* No key bytes at pos ends the generator; a key cut short raises in
\* uuid.UUID, a missing length in read_u8.
KLNext ==
    /\ fn_pc = "resume"
    /\ LET key == f_read(arg.data, kl_pos, 16)
           ber == ber_length(arg.data, kl_pos + 16)
       IN  IF key = <<>>
           THEN /\ fn_pc' = "stopped"
                /\ f_tell' = kl_pos
                /\ UNCHANGED <<kl_pos, kl_out, kl_at>>
           ELSE IF Len(key) < 16 \/ ber.err
           THEN /\ fn_pc' = "raised"
                /\ f_tell' = IF Len(key) < 16 THEN kl_pos + Len(key) ELSE ber.at
                /\ UNCHANGED <<kl_pos, kl_out, kl_at>>
           ELSE /\ kl_at' = Append(kl_at, kl_pos)
                /\ kl_out' = Append(kl_out, [key |-> key, length |-> ber.length])
                /\ kl_pos' = ber.at + ber.length
                /\ f_tell' = ber.at
                /\ fn_pc' = "yielded"
    /\ UNCHANGED <<vars, arg, res, res2>>

\* the consumer of the generator, between two yields: it reads n bytes,
\* fewer or more than the length it was handed, and asks for the next pair;
\* res keeps the numbers of bytes asked for
KLConsume ==
    /\ fn_pc = "yielded"
    /\ \E n \in 0..MaxConsume :
          /\ f_tell' = Min(f_tell + n, Len(arg.data))
          /\ res' = Append(res, n)
    /\ fn_pc' = "resume"
    /\ UNCHANGED <<vars, arg, res2, kl_pos, kl_out, kl_at>>

NextKL == KLNext \/ KLConsume

SpecKL == InitKL /\ [][NextKL]_<<vars, fnVars>>

\* where unit i starts in the file, and where its value starts
RECURSIVE KLUnitAt(_)
KLUnitAt(i) ==
    IF i = 1 THEN 0
    ELSE KLUnitAt(i - 1) + 16 + Len(arg.units[i - 1].ber) + arg.units[i - 1].length

KLValueAt(i) == KLUnitAt(i) + 16 + Len(arg.units[i].ber)

\* C13: iter_kl reads each next key at the offset where the previous unit's
\* value starts plus that unit's decoded length, whatever number of bytes
\* the consumer read between two yields; it yields one (key, length) per
\* unit in stream order and stops when no key bytes remain.
C13_IterKLSteps ==
    /\ fn_pc # "raised"
    /\ Len(kl_out) <= Len(arg.units)
    /\ Len(kl_at) = Len(kl_out)
    /\ \A i \in 1..Len(kl_out) :
          /\ kl_out[i] = [key |-> arg.units[i].key, length |-> arg.units[i].length]
          /\ kl_at[i] = IF i = 1 THEN 0 ELSE KLValueAt(i - 1) + kl_out[i - 1].length
    /\ fn_pc = "stopped" =>
          /\ Len(kl_out) = Len(arg.units)
          /\ kl_pos >= Len(arg.data)
    /\ (fn_pc = "resume" /\ Len(kl_out) = Len(arg.units)) => kl_pos >= Len(arg.data)

\* the generator has stopped after two or more units, the consumer having
\* read less than the length of one and more than the length of another
C13_Witness ==
    /\ fn_pc = "stopped"
    /\ Len(kl_out) >= 2
    /\ \E i, j \in 1..Len(res) :
          /\ res[i] < kl_out[i].length
          /\ res[j] > kl_out[j].length

\* ---------------------------------------------------------------- iter_tags
\* iter_tags_bytes as it would be if an entry of size zero took nothing off
\* the remaining length
RECURSIVE iter_tags_bytes_skip_uncounted(_, _, _)
iter_tags_bytes_skip_uncounted(data, at, length) ==
    IF length <= 0 THEN [out |-> <<>>, at |-> at, err |-> FALSE]
    ELSE LET t == f_read(data, at, 2)
             s == f_read(data, at + Len(t), 2)
         IN  IF Len(t) < 2 \/ Len(s) < 2
             THEN [out |-> <<>>, at |-> at + Len(t) + Len(s), err |-> TRUE]
             ELSE LET tag     == t[1] * 256 + t[2]
                      size    == s[1] * 256 + s[2]
                      payload == f_read(data, at + 4, size)
                      rest    == iter_tags_bytes_skip_uncounted(data, at + 4 + Len(payload),
                                        IF size # 0 THEN length - (4 + size) ELSE length)
                  IN  [out |-> IF size # 0
                               THEN <<[tag |-> tag, data |-> payload]>> \o rest.out
                               ELSE rest.out,
                       at  |-> rest.at,
                       err |-> rest.err]

\* iter_tags(f, length) run to its end on the bytes of a file, the cursor at
\* `at`: the (tag, payload) pairs yielded and the cursor left behind; the
\* tag and the size are read_u16be (two bytes, big-endian), err is its
\* struct.error on fewer than two bytes
RECURSIVE iter_tags_bytes(_, _, _)
iter_tags_bytes(data, at, length) ==
    IF length <= 0 THEN [out |-> <<>>, at |-> at, err |-> FALSE]
    ELSE LET t == f_read(data, at, 2)
             s == f_read(data, at + Len(t), 2)
         IN  IF Len(t) < 2 \/ Len(s) < 2
             THEN [out |-> <<>>, at |-> at + Len(t) + Len(s), err |-> TRUE]
             ELSE LET tag     == t[1] * 256 + t[2]
                      size    == s[1] * 256 + s[2]
                      payload == f_read(data, at + 4, size)
                      rest    == iter_tags_bytes(data, at + 4 + Len(payload),
                                                 length - (4 + size))
                  IN  [out |-> IF size # 0
                               THEN <<[tag |-> tag, data |-> payload]>> \o rest.out
                               ELSE rest.out,
                       at  |-> rest.at,
                       err |-> rest.err]

\* the entries a body is written from: a tag and a payload of 0..2 bytes
TagEntries == { [tag |-> tag, data |-> ValueBytes(n)] : tag \in {\H3c0a, \H0102}, n \in 0..2 }

RECURSIVE EntrySeqs(_)
EntrySeqs(n) ==
    IF n = 0 THEN {<<>>}
    ELSE LET shorter == EntrySeqs(n - 1)
         IN  shorter \cup { Append(s, e) : s \in shorter, e \in TagEntries }

u16be(n) == <<n \div 256, n % 256>>

RECURSIVE EntryBytes(_)
EntryBytes(entries) ==
    IF entries = <<>> THEN <<>>
    ELSE u16be(Head(entries).tag) \o u16be(Len(Head(entries).data)) \o Head(entries).data
         \o EntryBytes(Tail(entries))

\* iter_tags on the body of up to MaxTagEntries entries, the file ending
\* with it or going on with a further entry; the declared length is that of
\* the entries, or one less, or three more
InitTags ==
    /\ FileIdle
    /\ \E entries \in EntrySeqs(MaxTagEntries) :
       \E more \in {<<>>, EntryBytes(<<[tag |-> \H3c0a, data |-> <<9>>]>>)} :
       \E off \in {0 - 1, 0, 3} :
          arg = [entries |-> entries,
                 data    |-> EntryBytes(entries) \o more,
                 length  |-> Len(EntryBytes(entries)) + off]
    /\ res = <<>>
    /\ res2 = <<>>
    /\ fn_pc = "ready"
    /\ f_tell = 0
    /\ kl_pos = 0
    /\ kl_out = <<>>
    /\ kl_at = <<>>

IterTags ==
    /\ fn_pc = "ready"
    /\ res' = iter_tags_bytes(arg.data, f_tell, arg.length)
    /\ f_tell' = res'.at
    /\ fn_pc' = "applied"
    /\ UNCHANGED <<vars, arg, res2, kl_pos, kl_out, kl_at>>

NextTags == IterTags

SpecTags == InitTags /\ [][NextTags]_<<vars, fnVars>>

\* C14: iter_tags over a body of declared length L made of (2-byte tag,
\* 2-byte size, size-byte payload) entries yields, in order, exactly the
\* entries with size > 0 as (tag, payload), skips zero-size entries while
\* still counting their 4 header bytes, and stops once the entries consumed
\* add up to L.
C14_IterTagsYields ==
    (fn_pc = "applied" /\ arg.length = Len(EntryBytes(arg.entries))) =>
        /\ ~res.err
        /\ res.out = SelectSeq(arg.entries, LAMBDA e : Len(e.data) > 0)
        /\ f_tell = arg.length

\* iter_tags has run over a well-framed body with a zero-size entry between
\* two entries with a payload, in a file that goes on after the body
C14_Witness ==
    /\ fn_pc = "applied"
    /\ arg.length = Len(EntryBytes(arg.entries))
    /\ Len(arg.data) > arg.length
    /\ Len(arg.entries) = 3
    /\ Len(arg.entries[1].data) > 0
    /\ Len(arg.entries[2].data) = 0
    /\ Len(arg.entries[3].data) > 0
    /\ Len(res.out) = 2

\* C24: iter_tags never reads past the declared body: for every declared
\* length L and every tag/size sequence in the stream, the bytes it consumes
\* from the stream total at most L (it reads no tag header when fewer than 4
\* bytes of the body remain, and no payload longer than what remains).
C24_IterTagsStaysInBody ==
    (fn_pc = "applied" /\ arg.length >= 0) => f_tell <= arg.length

\* ------------------------------------------- operational pattern, by label
\* 16-byte labels: the registered prefix with its first byte and its version
\* byte varied, every kind of complexity byte and package byte, two tails
OpLabels ==
    { <<b0, 14, 43, 52, 4, 1, 1, v, 13, 1, 2, 1, c, p, t, t>> :
        b0 \in {6, 7}, v \in 0..4, c \in {0, 1, 2, 3, 4, 15, 16, 17, 127, 128, 255},
        p \in 0..4, t \in {0, 9} }

\* the file object operation_pattern is asked of: the label read from the
\* partition header, or held by the preface alone
InitOp ==
    /\ FileIdle
    /\ arg \in [label : OpLabels, from : {"header", "preface"}]
    /\ res = <<>>
    /\ res2 = <<>>
    /\ fn_pc = "ready"
    /\ f_tell = 0
    /\ kl_pos = 0
    /\ kl_out = <<>>
    /\ kl_at = <<>>

OperationPattern ==
    /\ fn_pc = "ready"
    /\ res' = IF arg.from = "header"
              THEN operation_pattern(arg.label, <<>>)
              ELSE operation_pattern(<<>>, <<[cls |-> "MXFPreface", instance_id |-> 1,
                                             data |-> ("OperationalPattern" :> arg.label)]>>)
    /\ fn_pc' = "applied"
    /\ UNCHANGED <<vars, arg, res2, f_tell, kl_pos, kl_out, kl_at>>

NextOp == OperationPattern

SpecOp == InitOp /\ [][NextOp]_<<vars, fnVars>>

\* bytes 0-11 of a label are one of the three prefixes
HasOpPrefix(l) ==
    /\ \A i \in 1..12 : i # 8 => l[i] = <<6, 14, 43, 52, 4, 1, 1, 0, 13, 1, 2, 1>>[i]
    /\ l[8] \in 1..3

\* C16: when bytes 0-11 match one of the three prefixes, byte 12 in 1..3
\* with byte 13 in 1..3 yields OP<byte12><a|b|c> and byte 12 equal to 0x10
\* yields OPAtom; every other label yields no pattern.
C16_OperationPattern ==
    fn_pc = "applied" =>
        LET l == arg.label
        IN  res = IF HasOpPrefix(l) /\ l[13] \in 1..3 /\ l[14] \in 1..3
                  THEN "OP" \o <<"1", "2", "3">>[l[13]] \o <<"a", "b", "c">>[l[14]]
                  ELSE IF HasOpPrefix(l) /\ l[13] = 16 THEN "OPAtom"
                  ELSE "None"

\* a label with a registered prefix and complexity byte 0x11 has been
\* classified: no pattern
C16_Witness ==
    /\ fn_pc = "applied"
    /\ HasOpPrefix(arg.label)
    /\ arg.label[13] = 17
    /\ res = "None"

\* ================================================= type codec (types.py)
\* A type definition is a record: an Int has a size in bytes and a sign, an
\* array an element type (and, fixed, a count of elements), an Enum an
\* element type, its codes and the bytes of its names.  encode hands back
\* bytes, decode a value; err is set when the call raises, exc names the
\* exception.  Python's lists and tuples are both sequences here.

Value(v) == [err |-> FALSE, exc |-> "", value |-> v]

Bytes(bs) == [err |-> FALSE, exc |-> "", bytes |-> bs]

Fail(exc) == [err |-> TRUE, exc |-> exc, value |-> <<>>, bytes |-> <<>>]

\* ------------------------------------------------------------------ struct
\* v as n bytes, least significant first (two's complement when negative)
RECURSIVE le_bytes(_, _)
le_bytes(v, n) == IF n = 0 THEN <<>> ELSE <<v % 256>> \o le_bytes(v \div 256, n - 1)

\* v shifted right by n bytes
RECURSIVE shift_right(_, _)
shift_right(v, n) == IF n = 0 THEN v ELSE shift_right(v \div 256, n - 1)

\* the range struct.pack accepts for a format of `size` bytes
struct_in_range(fmt, v) ==
    IF fmt.signed THEN shift_right(v, fmt.size - 1) \in -128..127
    ELSE shift_right(v, fmt.size) = 0

\* bytes, least significant first, as an unsigned and as a signed number
RECURSIVE le_unsigned(_)
le_unsigned(bs) == IF bs = <<>> THEN 0 ELSE bs[1] + 256 * le_unsigned(Tail(bs))

RECURSIVE le_signed(_)
le_signed(bs) ==
    IF Len(bs) = 1 THEN (IF bs[1] >= 128 THEN bs[1] - 256 ELSE bs[1])
    ELSE bs[1] + 256 * le_signed(Tail(bs))

RECURSIVE Concat(_)
Concat(seqs) == IF seqs = <<>> THEN <<>> ELSE Head(seqs) \o Concat(Tail(seqs))

\* struct.pack(fmt, *values): struct.error on a wrong number of values or a
\* value out of the range of the format
pack(fmt, values) ==
    IF Len(values) # fmt.count \/ \E i \in 1..Len(values) : ~struct_in_range(fmt, values[i])
    THEN Fail("struct.error")
    ELSE Bytes(Concat([i \in 1..Len(values) |-> le_bytes(values[i], fmt.size)]))

\* struct.unpack(fmt, data): struct.error unless data has the size of fmt
unpack(fmt, data) ==
    IF Len(data) # fmt.size * fmt.count THEN Fail("struct.error")
    ELSE Value([i \in 1..fmt.count |->
                  LET chunk == SubSeq(data, (i - 1) * fmt.size + 1, i * fmt.size)
                  IN  IF fmt.signed THEN le_signed(chunk) ELSE le_unsigned(chunk)])

\* ---------------------------------------------------------------- TypeDefInt
IntType(size, signed) == [kind |-> "Int", size |-> size, signed |-> signed]

\* TypeDefInt.pack_format: 'B', '<H', '<I', '<Q' by size, lower case when
\* signed, `elements` times; AAFPropertyError on any other size
pack_format(t, elements) ==
    IF t.size \in {1, 2, 4, 8}
    THEN [err |-> FALSE, size |-> t.size, signed |-> t.signed, count |-> elements]
    ELSE [err |-> TRUE, size |-> 0, signed |-> FALSE, count |-> 0]

\* TypeDefInt.decode: the assert on the length of the span, then unpack
TypeDefInt_decode(t, data) ==
    IF Len(data) # t.size THEN Fail("AssertionError")
    ELSE LET fmt == pack_format(t, 1)
         IN  IF fmt.err THEN Fail("AAFPropertyError")
             ELSE LET r == unpack(fmt, data)
                  IN  IF r.err THEN r ELSE Value(r.value[1])

TypeDefInt_encode(t, value) ==
    LET fmt == pack_format(t, 1)
    IN  IF fmt.err THEN Fail("AAFPropertyError") ELSE pack(fmt, <<value>>)

\* --------------------------------------------------------- TypeDefFixedArray
FixedArrayType(element, size) == [kind |-> "FixedArray", element |-> element, size |-> size]

\* TypeDefFixedArray.decode over an Int element: as many elements as the
\* span holds, whatever the count of the type
TypeDefFixedArray_decode(t, data) ==
    LET fmt == pack_format(t.element, Len(data) \div t.element.size)
    IN  IF fmt.err THEN Fail("AAFPropertyError") ELSE unpack(fmt, data)

\* the loop of TypeDefFixedArray.encode over data[n..]: the bytes so far,
\* or the exception of the first item that is one too many or fails
RECURSIVE fixed_encode_items(_, _, _, _)
fixed_encode_items(t, data, n, result) ==
    IF n > Len(data) THEN Bytes(result)
    ELSE IF n - 1 >= t.size THEN Fail("AAFPropertyError")
    ELSE LET item == TypeDefInt_encode(t.element, data[n])
         IN  IF item.err THEN item
             ELSE fixed_encode_items(t, data, n + 1, result \o item.bytes)

\* TypeDefFixedArray.encode: the items, then (element_count - i) * byte_size
\* zero bytes, i being the index the loop ended on (that of the last item);
\* with no item i is unbound and the test of i raises
TypeDefFixedArray_encode(t, data) ==
    LET items == fixed_encode_items(t, data, 1, <<>>)
        i     == Len(data) - 1
    IN  IF items.err THEN items
        ELSE IF data = <<>> THEN Fail("UnboundLocalError")
        ELSE IF i < t.size
             THEN Bytes(items.bytes \o [k \in 1..((t.size - i) * t.element.size) |-> 0])
             ELSE items

\* ----------------------------------------------------------- TypeDefVarArray
VarArrayType(element) == [kind |-> "VarArray", element |-> element]

TypeDefVarArray_decode(t, data) ==
    LET fmt == pack_format(t.element, Len(data) \div t.element.size)
    IN  IF fmt.err THEN Fail("AAFPropertyError") ELSE unpack(fmt, data)

TypeDefVarArray_encode(t, value) ==
    LET fmt == pack_format(t.element, Len(value))
    IN  IF fmt.err THEN Fail("AAFPropertyError") ELSE pack(fmt, value)

\* --------------------------------------------------------------- TypeDefEnum
\* iter_utf16_array from byte offset i on (0-based, even): the names of a
\* UTF-16LE array, each ended by a zero code unit, as their code units;
\* start is where the name being read began
RECURSIVE iter_utf16_array(_, _, _)
iter_utf16_array(data, start, i) ==
    IF i + 1 >= Len(data) THEN <<>>
    ELSE IF data[i + 1] = 0 /\ data[i + 2] = 0
         THEN << [k \in 1..((i - start) \div 2) |->
                    data[start + 2 * k - 1] + 256 * data[start + 2 * k]] >>
              \o iter_utf16_array(data, i + 2, i + 2)
         ELSE iter_utf16_array(data, start, i + 2)

\* dict(zip(values, names)): pairs up to the shorter of the two, a later
\* pair replacing an earlier one with the same code
RECURSIVE zip_dict(_, _, _)
zip_dict(values, names, d) ==
    IF values = <<>> \/ names = <<>> THEN d
    ELSE zip_dict(Tail(values), Tail(names), Put(d, Head(values), Head(names)))

\* an Enum: boolean when its auid is 01040100-0000-0000-060e-2b3401040101
EnumType(boolean, element, values, names) ==
    [kind |-> "Enum", boolean |-> boolean, element |-> element,
     values |-> values, names |-> names]

\* TypeDefEnum.elements
elements(t) == zip_dict(t.values, iter_utf16_array(t.names, 0, 0), EmptyDict)

\* TypeDefEnum.decode as it would be without the branch for the boolean
\* AUID
TypeDefEnum_decode_by_elements(t, data) ==
    LET index == TypeDefInt_decode(t.element, data)
    IN  IF index.err THEN index
        ELSE IF Has(elements(t), index.value) THEN Value(elements(t)[index.value])
        ELSE Fail("KeyError")

\* TypeDefEnum.decode: the boolean AUID compares the span with b'\x01';
\* any other enum decodes the code with its element type and looks it up
TypeDefEnum_decode(t, data) ==
    IF t.boolean THEN Value(data = <<1>>)
    ELSE LET index == TypeDefInt_decode(t.element, data)
         IN  IF index.err THEN index
             ELSE IF Has(elements(t), index.value) THEN Value(elements(t)[index.value])
             ELSE Fail("KeyError")

\* ------------------------------------------------------------ TypeDefString
StringType == [kind |-> "String"]

\* encode_utf16le(data): the 16-bit units of a text, low byte first, and a
\* 00 00 pair after them
encode_utf16le(text) ==
    Concat([k \in 1..Len(text) |-> <<text[k] % 256, text[k] \div 256>>]) \o <<0, 0>>

\* the number of whole pairs of data before its first 00 00 pair from pair
\* i on; all of them when it has none
RECURSIVE utf16le_units(_, _)
utf16le_units(data, i) ==
    IF 2 * i + 2 > Len(data) THEN i
    ELSE IF data[2 * i + 1] = 0 /\ data[2 * i + 2] = 0 THEN i
    ELSE utf16le_units(data, i + 1)

\* decode_utf16le(data): the units up to the first 00 00 pair
decode_utf16le(data) ==
    [k \in 1..utf16le_units(data, 0) |-> data[2 * k - 1] + 256 * data[2 * k]]

TypeDefString_encode(t, data) == Bytes(encode_utf16le(data))

TypeDefString_decode(t, data) == Value(decode_utf16le(data))

\* ------------------------------------------------------- encode and decode
\* typedef.encode(value) and typedef.decode(data), by the class of typedef
encode(t, value) ==
    CASE t.kind = "Int"        -> TypeDefInt_encode(t, value)
      [] t.kind = "FixedArray" -> TypeDefFixedArray_encode(t, value)
      [] t.kind = "VarArray"   -> TypeDefVarArray_encode(t, value)
      [] t.kind = "String"     -> TypeDefString_encode(t, value)

RECURSIVE decode(_, _)

\* ---------------------------------------------------------------- TypeDefSet
SetType(element) == [kind |-> "Set", element |-> element]

\* the items of a sequence, as set(data) holds them
set(data) == { data[i] : i \in 1..Len(data) }

\* the orders in which a for loop may meet the items of a set
IterationOrders(S) == { o \in [1..Cardinality(S) -> S] : set(o) = S }

\* result += typedef.encode(item), item by item; a failing item ends it
RECURSIVE encode_items(_, _, _, _)
encode_items(t, items, n, result) ==
    IF n > Len(items) THEN Bytes(result)
    ELSE LET item == encode(t.element, items[n])
         IN  IF item.err THEN item
             ELSE encode_items(t, items, n + 1, result \o item.bytes)

\* encode that iterates data itself, duplicates and all
TypeDefSet_encode_keeps_duplicates(t, data, order) == encode_items(t, data, 1, <<>>)

\* TypeDefSet.encode(data), when the loop meets set(data) in the given order
TypeDefSet_encode(t, data, order) == encode_items(t, order, 1, <<>>)

\* result.add(typedef.decode(data[start:end])), chunk by chunk
RECURSIVE decode_chunks(_, _, _, _)
decode_chunks(t, data, i, result) ==
    LET size  == t.element.size
        count == Len(data) \div size
    IN  IF i >= count THEN Value(result)
        ELSE LET v == decode(t.element, SubSeq(data, i * size + 1, (i + 1) * size))
             IN  IF v.err THEN v
                 ELSE decode_chunks(t, data, i + 1, result \cup {v.value})

\* TypeDefSet.decode(data)
TypeDefSet_decode(t, data) == decode_chunks(t, data, 0, {})

\* ----------------------------------------------------------- TypeDefIndirect
IndirectType == [kind |-> "Indirect"]

\* a UUID is its 16 bytes in the order its text form shows them
\* 01100200-0000-0000-060e-2b3401040101, aafString
AafString == <<1, 16, 2, 0, 0, 0, 0, 0, 6, 14, 43, 52, 1, 4, 1, 1>>

\* 01010700-0000-0000-060e-2b3401040101, aafInt32
AafInt32 == <<1, 1, 7, 0, 0, 0, 0, 0, 6, 14, 43, 52, 1, 4, 1, 1>>

\* UUID.bytes_le: the first three fields byte-swapped, the rest as it is
bytes_le(u) ==
    <<u[4], u[3], u[2], u[1], u[6], u[5], u[8], u[7]>> \o SubSeq(u, 9, 16)

\* UUID(bytes_le=b) for a b of 16 bytes
uuid_from_bytes_le(b) ==
    <<b[4], b[3], b[2], b[1], b[6], b[5], b[8], b[7]>> \o SubSeq(b, 9, 16)

\* self.root.metadict.lookup_typedef(auid): <<t>>, or <<>> for None
lookup_typedef(auid) ==
    CASE auid = AafString -> <<StringType>>
      [] auid = AafInt32  -> <<IntType(4, TRUE)>>
      [] OTHER            -> <<>>

\* a native value: a text (its 16-bit units), an integer, or a float, which
\* stands for every other kind
NativeText(s) == [kind |-> "text", s |-> s, n |-> 0]
NativeInt(n) == [kind |-> "int", s |-> <<>>, n |-> n]
NativeFloat(n) == [kind |-> "float", s |-> <<>>, n |-> n]

\* the value itself, as the element type is handed it
native(data) == IF data.kind = "text" THEN data.s ELSE data.n

\* data[a:b] of Python, a and b 0-based
slice(data, a, b) == SubSeq(data, a + 1, Min(b, Len(data)))

\* encode that writes the id of the type as UUID.bytes
TypeDefIndirect_encode_bytes_be(data, data_typedef) ==
    LET type_uuid == IF data.kind = "text" THEN AafString ELSE AafInt32
    IN  IF data.kind \notin {"text", "int"} THEN Fail("NotImplementedError")
        ELSE LET item == encode(lookup_typedef(type_uuid)[1], native(data))
             IN  IF item.err THEN item ELSE Bytes(<<76>> \o type_uuid \o item.bytes)

\* TypeDefIndirect.encode(data, data_typedef): data carries its native kind,
\* data_typedef is <<>> for None
TypeDefIndirect_encode(data, data_typedef) ==
    IF data_typedef # <<>> /\ lookup_typedef(data_typedef[1]) = <<>>
    THEN Fail("AAFPropertyError")
    ELSE IF data_typedef = <<>> /\ data.kind \notin {"text", "int"}
    THEN Fail("NotImplementedError")
    ELSE LET type_uuid == IF data_typedef # <<>> THEN data_typedef[1]
                          ELSE IF data.kind = "text" THEN AafString
                          ELSE AafInt32
             typedef   == lookup_typedef(type_uuid)
         IN  IF typedef = <<>> THEN Fail("AttributeError")
             ELSE LET item == encode(typedef[1], native(data))
                  IN  IF item.err THEN item
                      ELSE Bytes(<<76>> \o bytes_le(type_uuid) \o item.bytes)

\* TypeDefIndirect.decode(data)
TypeDefIndirect_decode(t, data) ==
    IF slice(data, 0, 1) # <<76>> THEN Fail("AssertionError")
    ELSE IF Len(slice(data, 1, 17)) # 16 THEN Fail("ValueError")
    ELSE LET typedef == lookup_typedef(uuid_from_bytes_le(slice(data, 1, 17)))
         IN  IF typedef = <<>> THEN Fail("AttributeError")
             ELSE decode(typedef[1], slice(data, 17, Len(data)))

decode(t, data) ==
    CASE t.kind = "Int"        -> TypeDefInt_decode(t, data)
      [] t.kind = "FixedArray" -> TypeDefFixedArray_decode(t, data)
      [] t.kind = "VarArray"   -> TypeDefVarArray_decode(t, data)
      [] t.kind = "Enum"       -> TypeDefEnum_decode(t, data)
      [] t.kind = "Set"        -> TypeDefSet_decode(t, data)
      [] t.kind = "String"     -> TypeDefString_decode(t, data)
      [] t.kind = "Indirect"   -> TypeDefIndirect_decode(t, data)

\* ------------------------------------------------------------ codec inputs
IntTypes == { IntType(size, signed) : size \in {1, 2, 4, 8}, signed \in BOOLEAN }

\* values at and on either side of the ends of the ranges of the Int types
\* (as far as 32 bits go)
IntValues ==
    {0 - 2147483647, 0 - 32769, 0 - 32768, 0 - 129, 0 - 128, 0 - 1, 0, 1, 127, 128,
     255, 256, 32767, 32768, 65535, 65536, 2147483647}

IntInputs == [op : {"encode"}, type : IntTypes, value : IntValues]

RECURSIVE IntSeqs(_, _)
IntSeqs(pool, n) ==
    IF n = 0 THEN {<<>>}
    ELSE LET shorter == IntSeqs(pool, n - 1)
         IN  shorter \cup { Append(s, v) : s \in shorter, v \in pool }

\* array items: in the range of every Int type, of the unsigned ones only,
\* of the signed ones only
ItemValues == {0, 1, 200, 0 - 1}

FixedArrayTypes == { FixedArrayType(e, n) : e \in IntTypes, n \in 0..MaxCapacity }

FixedArrayInputs ==
    [op : {"encode"}, type : FixedArrayTypes, value : IntSeqs(ItemValues, MaxCapacity + 1)]

VarArrayInputs ==
    [op : {"encode"}, type : { VarArrayType(e) : e \in IntTypes },
     value : IntSeqs(ItemValues, MaxCapacity + 1)]

\* collections handed to a Set: items repeated, in any order, in and out of
\* the range of the element type
SetInputs ==
    [op : {"encode_set"}, type : { SetType(e) : e \in IntTypes },
     value : IntSeqs(ItemValues, MaxCapacity + 1)]

\* texts of up to two units, U+0000 among them
Texts == IntSeqs({0, 65, 322}, 2)

\* the values handed to an Indirect type without a type: texts, integers
\* and a float; with a type: integers for the 32-bit signed type and for an
\* id the registry does not know
IndirectInputs ==
    [op : {"encode_indirect"}, type : {IndirectType}, data_typedef : {<<>>},
     value : { NativeText(s) : s \in Texts } \cup { NativeInt(n) : n \in IntValues } \cup {NativeFloat(0)}]
    \cup
    [op : {"encode_indirect"}, type : {IndirectType},
     data_typedef : {<<AafInt32>>, <<PrimerKey>>},
     value : { NativeInt(n) : n \in {0, 255, 256} }]

\* the spans handed to Indirect decode: what encode makes of a text and of
\* an integer, as it is, cut short, and under another first byte; no bytes
IndirectSpans ==
    LET made == { TypeDefIndirect_encode(v, <<>>).bytes :
                    v \in {NativeText(<<65>>), NativeInt(258)} }
    IN  [op : {"decode"}, type : {IndirectType},
         data : {<<>>}
                \cup { <<b>> \o Tail(m) : b \in {76, 66, 77, 0}, m \in made }
                \cup { SubSeq(m, 1, n) : n \in {1, 10, 17}, m \in made }]

\* a span of n bytes: every eighth byte counts up from 1, the others are 0
SpanBytes(n) == [i \in 1..n |-> IF i % 8 = 1 THEN 1 + i \div 8 ELSE 0]

\* spans of every length up to one byte past MaxCapacity + 1 widest items
SpanInputs ==
    [op : {"decode"}, type : IntTypes,
     data : { SpanBytes(n) : n \in 0..(8 * (MaxCapacity + 1) + 1) }]
    \cup
    [op : {"decode"}, type : FixedArrayTypes,
     data : { SpanBytes(n) : n \in 0..(8 * (MaxCapacity + 1) + 1) }]

\* the names of an enum as the UTF-16LE array ElementNames holds
RECURSIVE NameBytes(_)
NameBytes(labels) ==
    IF labels = <<>> THEN <<>>
    ELSE Concat([k \in 1..Len(Head(labels)) |->
                    <<Head(labels)[k] % 256, Head(labels)[k] \div 256>>])
         \o <<0, 0>> \o NameBytes(Tail(labels))

\* the codes and labels of the enums: "A" is <<65>>, "No" is <<78, 111>>
EnumMappings ==
    { [values |-> <<0, 1>>, labels |-> <<<<65>>, <<66>>>>],
      [values |-> <<1, 0>>, labels |-> <<<<65>>, <<66>>>>],
      [values |-> <<2, 2>>, labels |-> <<<<78, 111>>, <<66>>>>],
      [values |-> <<100>>,  labels |-> <<<<65>>>>],
      [values |-> <<>>,     labels |-> <<>>] }

EnumElementTypes == {IntType(1, FALSE), IntType(2, FALSE), IntType(1, TRUE)}

\* an enum and a span: the bytes of a code (kept in code), or a span of a
\* length the element type does not have
EnumInputs ==
    { [op |-> "decode",
       type |-> EnumType(b, e, m.values, NameBytes(m.labels)),
       data |-> IF c[1] >= 0 THEN le_bytes(c[1], e.size) ELSE SpanBytes(0 - c[1] - 1),
       code |-> IF c[1] >= 0 THEN c ELSE <<>>,
       mapping |-> m] :
        b \in BOOLEAN, e \in EnumElementTypes, m \in EnumMappings,
        c \in { <<0>>, <<1>>, <<2>>, <<100>>, <<0 - 1>>, <<0 - 4>> } }

\* a value about to be encoded, or a span about to be decoded
InitCodec ==
    /\ FileIdle
    /\ \/ arg \in IntInputs
       \/ arg \in FixedArrayInputs
       \/ arg \in VarArrayInputs
       \/ arg \in SpanInputs
       \/ arg \in EnumInputs
       \/ arg \in SetInputs
       \/ arg \in IndirectInputs
       \/ arg \in IndirectSpans
    /\ res = <<>>
    /\ res2 = <<>>
    /\ fn_pc = "ready"
    /\ f_tell = 0
    /\ kl_pos = 0
    /\ kl_out = <<>>
    /\ kl_at = <<>>

\* typedef.encode(value)
Encode ==
    /\ fn_pc = "ready"
    /\ arg.op = "encode"
    /\ res' = encode(arg.type, arg.value)
    /\ fn_pc' = "encoded"
    /\ UNCHANGED <<vars, arg, res2, f_tell, kl_pos, kl_out, kl_at>>

\* TypeDefSet.encode(value): the loop meets the items of the set in an order
\* of its own
EncodeSet ==
    /\ fn_pc = "ready"
    /\ arg.op = "encode_set"
    /\ \E order \in IterationOrders(set(arg.value)) :
          res' = TypeDefSet_encode(arg.type, arg.value, order)
    /\ fn_pc' = "encoded"
    /\ UNCHANGED <<vars, arg, res2, f_tell, kl_pos, kl_out, kl_at>>

\* TypeDefIndirect.encode(value, data_typedef)
EncodeIndirect ==
    /\ fn_pc = "ready"
    /\ arg.op = "encode_indirect"
    /\ res' = TypeDefIndirect_encode(arg.value, arg.data_typedef)
    /\ fn_pc' = "encoded"
    /\ UNCHANGED <<vars, arg, res2, f_tell, kl_pos, kl_out, kl_at>>

\* typedef.decode of the bytes encode made
Decode ==
    /\ fn_pc = "encoded"
    /\ ~res.err
    /\ res2' = decode(arg.type, res.bytes)
    /\ fn_pc' = "decoded"
    /\ UNCHANGED <<vars, arg, res, f_tell, kl_pos, kl_out, kl_at>>

\* typedef.decode of a span read from a file
DecodeSpan ==
    /\ fn_pc = "ready"
    /\ arg.op = "decode"
    /\ res2' = decode(arg.type, arg.data)
    /\ fn_pc' = "decoded"
    /\ UNCHANGED <<vars, arg, res, f_tell, kl_pos, kl_out, kl_at>>

NextCodec == Encode \/ EncodeSet \/ EncodeIndirect \/ Decode \/ DecodeSpan

SpecCodec == InitCodec /\ [][NextCodec]_<<vars, fnVars>>

\* ------------------------------------------------------------ codec claims
\* v is in the range of Int type t
InIntRange(t, v) ==
    CASE t.size = 1 /\ ~t.signed -> v \in 0..255
      [] t.size = 1 /\ t.signed  -> v \in (0 - 128)..127
      [] t.size = 2 /\ ~t.signed -> v \in 0..65535
      [] t.size = 2 /\ t.signed  -> v \in (0 - 32768)..32767
      [] t.size > 2 /\ ~t.signed -> v >= 0
      [] t.size > 2 /\ t.signed  -> TRUE

AllInRange(t, s) == \A i \in 1..Len(s) : InIntRange(t, s[i])

Zeros(n) == [i \in 1..n |-> 0]

\* C17: FixedArray encode of a sequence with fewer elements than the
\* declared capacity (the empty sequence included) produces exactly
\* capacity * element_byte_size bytes: the encoded elements followed by
\* zero bytes only.
C17_FixedArrayPadsToCapacity ==
    (/\ fn_pc = "encoded"
     /\ arg.type.kind = "FixedArray"
     /\ Len(arg.value) < arg.type.size
     /\ AllInRange(arg.type.element, arg.value)) =>
        /\ ~res.err
        /\ Len(res.bytes) = arg.type.size * arg.type.element.size
        /\ LET n == Len(arg.value) * arg.type.element.size
           IN  /\ SubSeq(res.bytes, 1, n) =
                     Concat([i \in 1..Len(arg.value) |->
                               le_bytes(arg.value[i], arg.type.element.size)])
               /\ SubSeq(res.bytes, n + 1, Len(res.bytes)) = Zeros(Len(res.bytes) - n)

\* the values the round-trip law is about: an Int in range, a fixed array of
\* exactly as many items as its count, any variable array, items in range
RoundTripInput ==
    /\ arg.op = "encode"
    /\ arg.type.kind = "Int" => InIntRange(arg.type, arg.value)
    /\ arg.type.kind # "Int" => AllInRange(arg.type.element, arg.value)
    /\ arg.type.kind = "FixedArray" => Len(arg.value) = arg.type.size

RoundTrip(kinds) ==
    (arg.op = "encode" /\ arg.type.kind \in kinds /\ RoundTripInput) =>
        /\ fn_pc = "encoded" => ~res.err
        /\ fn_pc = "decoded" => (~res2.err /\ res2.value = arg.value)

\* C18: decode(encode(v)) = v for every Integer type of width 1, 2, 4 or 8
\* bytes, signed or unsigned, and every v in its range; for a FixedArray
\* over such a type and every sequence v of exactly capacity elements; and
\* for a VariableArray over such a type and every sequence v.
C18_RoundTrip == RoundTrip({"Int", "FixedArray", "VarArray"})

\* the part of the round-trip law that is about Integer and VariableArray
RoundTripIntAndVarArray == RoundTrip({"Int", "VarArray"})

\* the byte size of a type that has a fixed one
byte_size(t) == IF t.kind = "Int" THEN t.size ELSE t.element.size * t.size

\* C19: for every type with a fixed byte size, decode of a byte span whose
\* length differs from that size fails instead of returning a value: an
\* Integer of width w given other than w bytes, and a FixedArray of
\* capacity n over w-byte integers given other than n * w bytes.
C19_WrongLengthFails ==
    (/\ fn_pc = "decoded"
     /\ arg.op = "decode"
     /\ arg.type.kind \in {"Int", "FixedArray"}
     /\ Len(arg.data) # byte_size(arg.type)) => res2.err

\* the part of C19 that is about Integer
WrongLengthIntFails ==
    (/\ fn_pc = "decoded"
     /\ arg.op = "decode"
     /\ arg.type.kind = "Int"
     /\ Len(arg.data) # byte_size(arg.type)) => res2.err

\* the label a mapping gives a code: that of the last pair with the code
LabelOf(m, code) ==
    LET S == { i \in 1..Len(m.values) : m.values[i] = code }
    IN  m.labels[CHOOSE i \in S : \A j \in S : j <= i]

\* C20: Enum decode returns the label mapped to the decoded integer code and
\* fails for a code that has no mapping; the Enum with the boolean AUID
\* instead decodes byte 0x01 to true and 0x00 to false whatever element
\* mapping is configured.
C20_EnumDecode ==
    (fn_pc = "decoded" /\ arg.type.kind = "Enum") =>
        IF arg.type.boolean
        THEN /\ ~res2.err
             /\ arg.data = <<1>> => res2.value = TRUE
             /\ arg.data = <<0>> => res2.value = FALSE
        ELSE /\ arg.code = <<>> => res2.err
             /\ arg.code # <<>> =>
                   IF \E i \in 1..Len(arg.mapping.values) : arg.mapping.values[i] = arg.code[1]
                   THEN ~res2.err /\ res2.value = LabelOf(arg.mapping, arg.code[1])
                   ELSE res2.err

\* the boolean enum, configured with 1 -> "A" and 0 -> "B", has decoded the
\* byte 0x01: true, not "A"
C20_Witness ==
    /\ fn_pc = "decoded"
    /\ arg.type.kind = "Enum"
    /\ arg.type.boolean
    /\ arg.mapping.values = <<1, 0>>
    /\ arg.data = <<1>>
    /\ res2.value = TRUE

\* C21: for every collection S of elements in the range of the element type,
\* encode(S) is one chunk of the element's byte size per distinct element of
\* S, no more, and decode(encode(S)) is the set of the distinct elements of
\* S, in whatever order encode met them.
C21_SetRoundTrip ==
    (arg.op = "encode_set" /\ AllInRange(arg.type.element, arg.value)) =>
        /\ fn_pc = "encoded" =>
              /\ ~res.err
              /\ Len(res.bytes) = Cardinality(set(arg.value)) * arg.type.element.size
              /\ { SubSeq(res.bytes, (k - 1) * arg.type.element.size + 1,
                           k * arg.type.element.size) :
                      k \in 1..Cardinality(set(arg.value)) }
                 = { le_bytes(v, arg.type.element.size) : v \in set(arg.value) }
        /\ fn_pc = "decoded" => (~res2.err /\ res2.value = set(arg.value))

\* a collection of three items, two of them equal, has made two chunks, the
\* larger item first, and decoded to its two distinct items
C21_Witness ==
    /\ fn_pc = "decoded"
    /\ arg.op = "encode_set"
    /\ arg.value = <<1, 200, 1>>
    /\ arg.type.element = IntType(2, FALSE)
    /\ res.bytes = <<200, 0, 1, 0>>
    /\ res2.value = {1, 200}

\* ------------------------------------------------------- descriptor linking
\* the fields the link method of a descriptor class reads with self.data[key]
RequiredFields(cls) ==
    CASE cls = "MXFCDCIDescriptor" ->
            {"ComponentWidth", "HorizontalSubsampling", "ImageAspectRatio", "StoredWidth",
             "VideoLineMap", "StoredHeight", "SampleRate", "FrameLayout"}
      [] cls = "MXFRGBADescriptor" ->
            {"ImageAspectRatio", "StoredWidth", "FrameLayout", "PixelLayout",
             "VideoLineMap", "StoredHeight", "SampleRate", "Length"}
      [] cls = "MXFPCMDescriptor" ->
            {"BlockAlign", "AverageBPS", "Channels", "QuantizationBits",
             "AudioSamplingRate", "SampleRate", "Length"}
      [] OTHER -> {}

\* the fields it copies under `if key in self.data`
OptionalFields(cls) ==
    CASE cls = "MXFCDCIDescriptor" ->
            {"FrameSampleSize", "ResolutionID", "Compression", "VerticalSubsampling"}
      [] cls = "MXFRGBADescriptor" -> {"FrameSampleSize"}
      [] OTHER -> {}

\* the descriptor classes that define a link method
LinkingDescriptorClasses ==
    {"MXFCDCIDescriptor", "MXFRGBADescriptor", "MXFPCMDescriptor", "MXFImportDescriptor",
     "MXFTapeDescriptor"}

\* the object the Descriptor reference of package i resolves to
DescriptorOf(i) == resolve_ref(objects, Pkgs[i][1], "Descriptor")[1]

\* package i references a descriptor of one of the classes, with the
\* required fields of its class, and nothing else stands in the way of its
\* link: its tracks link and every reference under it resolves
HasWholeDescriptor(i, classes) ==
    /\ IsPackage(i)
    /\ resolve_ref(objects, Pkgs[i][1], "Descriptor") # <<>>
    /\ DescriptorOf(i).cls \in classes
    /\ RequiredFields(DescriptorOf(i).cls) \subseteq DOMAIN DescriptorOf(i).data
    /\ ~link_all(objects, iter_strong_refs(objects, Pkgs[i][1], "Slots")).err
    /\ ~HasUnresolvedRef(i)

\* d holds the required fields of src as they are, and an optional field
\* when and only when src holds it
DescriptorCopied(src, d) ==
    /\ \A k \in RequiredFields(src.cls) : Has(d.props, k) /\ d.props[k] = src.data[k]
    /\ \A k \in OptionalFields(src.cls) :
          /\ Has(d.props, k) <=> Has(src.data, k)
          /\ Has(src.data, k) => d.props[k] = src.data[k]

\* a link call gives the mob of every package that has a whole descriptor
\* of one of the classes, and is reached by the call, a linked descriptor
DescriptorLinks(classes) ==
    \A i \in 1..Len(Pkgs) :
        ( /\ LinkStep /\ IsOPAtom
          /\ \A k \in 1..(i - 1) : LinksAlone(k)
          /\ HasWholeDescriptor(i, classes)
          /\ package_id(Pkgs[i][1]) \notin MobIds(mobs) )
        => \E j \in 1..Len(mobs') :
              /\ mobs'[j].props["MobID"] = package_id(Pkgs[i][1])
              /\ Has(mobs'[j].props, "descriptor")
              /\ DescriptorCopied(DescriptorOf(i), mobs'[j].props["descriptor"])

\* C22: linking a package whose Descriptor reference resolves to any member
\* of the closed descriptor set (CDCI, RGBA, PCM, Import, Tape, generic Sound,
\* Multiple) with its required fields present succeeds and gives the mob a
\* linked descriptor; required fields are copied as they are and an optional
\* field is assigned on the destination only when the source holds it.
C22_DescriptorLinks == [][DescriptorLinks(DescriptorClasses)]_vars

\* the same for the descriptor classes that define a link method
LinkingDescriptorLinks == [][DescriptorLinks(LinkingDescriptorClasses)]_vars

\* -------------------------------------------------- decode_utf16be, by bytes
\* the buffers of a text field: bytes 00 and 41, so that a unit is U+0000,
\* U+0041, U+4100 or U+4141, of every length up to 2 * MaxUnits + 1
RECURSIVE TextBuffers(_)
TextBuffers(n) ==
    IF n = 0 THEN {<<>>}
    ELSE LET shorter == TextBuffers(n - 1)
         IN  shorter \cup { Append(b, x) : b \in shorter, x \in {0, 65} }

InitText ==
    /\ FileIdle
    /\ \E data \in TextBuffers(2 * MaxUnits + 1) : arg = [data |-> data]
    /\ res = <<>>
    /\ res2 = <<>>
    /\ fn_pc = "ready"
    /\ f_tell = 0
    /\ kl_pos = 0
    /\ kl_out = <<>>
    /\ kl_at = <<>>

\* self.data['Name'] = decode_utf16be(data)
DecodeText ==
    /\ fn_pc = "ready"
    /\ res' = [text |-> decode_utf16be(arg.data)]
    /\ fn_pc' = "applied"
    /\ UNCHANGED <<vars, arg, res2, f_tell, kl_pos, kl_out, kl_at>>

NextText == DecodeText

SpecText == InitText /\ [][NextText]_<<vars, fnVars>>

\* the 16-bit units of the first n whole pairs of a buffer, big-endian
UnitsOf(data, n) == [k \in 1..n |-> data[2 * k - 1] * 256 + data[2 * k]]

\* the (1-based) pairs of a buffer that are 00 00
Terminators(data) ==
    { k \in 1..(Len(data) \div 2) : data[2 * k - 1] = 0 /\ data[2 * k] = 0 }

\* the text a buffer stands for: the units before its first 00 00 pair, or
\* all its units when it has none
TextOf(data) ==
    IF Terminators(data) = {} THEN UnitsOf(data, Len(data) \div 2)
    ELSE UnitsOf(data, (CHOOSE k \in Terminators(data) : \A j \in Terminators(data) : k <= j) - 1)

\* C25: decode_utf16be returns the characters that precede the first
\* 2-byte-aligned 00 00 pair, and returns the whole text of the buffer when
\* the buffer contains no such terminator (so a Name, SlotName or URLString
\* stored without a terminator decodes to its full text, not to a shorter or
\* empty string).
C25_DecodeUtf16be ==
    fn_pc = "applied" => res.text = TextOf(arg.data)

\* the same for the buffers that hold a terminator or end in a single byte
TerminatedOrOddDecodes ==
    (fn_pc = "applied" /\ (Terminators(arg.data) # {} \/ Len(arg.data) % 2 = 1))
        => res.text = TextOf(arg.data)

\* the bytes of a text as a String holds them: its units, low byte first,
\* and the terminator
RECURSIVE StringBytes(_)
StringBytes(s) ==
    IF s = <<>> THEN <<0, 0>> ELSE <<Head(s) % 256, Head(s) \div 256>> \o StringBytes(Tail(s))

\* what Indirect encode without a type is to make of a text or an integer:
\* the marker, the id of the type, little-endian, the element encoding
IndirectBytes(data) ==
    IF data.kind = "text"
    THEN <<76>> \o <<0, 2, 16, 1, 0, 0, 0, 0, 6, 14, 43, 52, 1, 4, 1, 1>> \o StringBytes(data.s)
    ELSE <<76>> \o <<0, 7, 1, 1, 0, 0, 0, 0, 6, 14, 43, 52, 1, 4, 1, 1>> \o le_bytes(data.n, 4)

\* Indirect encode without a type and decode of its output, for the values
\* of a domain; and decode of a span under another first byte
IndirectCodec(domain) ==
    /\ (/\ arg.op = "encode_indirect"
        /\ arg.data_typedef = <<>>
        /\ arg.value.kind \in {"text", "int"}
        /\ arg.value \in domain) =>
            /\ fn_pc = "encoded" => (~res.err /\ res.bytes = IndirectBytes(arg.value))
            /\ fn_pc = "decoded" => (~res2.err /\ res2.value = native(arg.value))
    /\ (/\ arg.op = "decode"
        /\ arg.type.kind = "Indirect"
        /\ fn_pc = "decoded"
        /\ (arg.data = <<>> \/ arg.data[1] # 76)) => res2.err

\* C23 as stated: Indirect/Opaque encode without an explicit target type
\* emits the marker byte 0x4c, then the 16-byte id of the character-string
\* type for a text value or of the 32-bit signed integer type for an integer
\* value, then the element encoding; decode of that output returns the
\* original value, and decode of a buffer whose first byte is not the marker
\* fails.
C23_IndirectAnyValue ==
    IndirectCodec({ NativeText(s) : s \in Texts } \cup { NativeInt(n) : n \in IntValues })

\* C23, amended: the same for a text value that holds no U+0000 and for an
\* integer value in the range of the 32-bit signed type.
C23_IndirectCodec ==
    IndirectCodec({ NativeText(s) : s \in { x \in Texts : \A k \in 1..Len(x) : x[k] # 0 } }
                  \cup { NativeInt(n) : n \in IntValues })

\* the text of the units U+0041 U+0142 has been encoded under the marker and
\* the id of the string type and decoded to itself
C23_Witness ==
    /\ fn_pc = "decoded"
    /\ arg.op = "encode_indirect"
    /\ arg.data_typedef = <<>>
    /\ arg.value = NativeText(<<65, 322>>)
    /\ res.bytes = <<76, 0, 2, 16, 1, 0, 0, 0, 0, 6, 14, 43, 52, 1, 4, 1, 1, 65, 0, 66, 1, 0, 0>>
    /\ res2.value = <<65, 322>>

====
